---- MODULE Spec2Model ----
(***************************************************************************)
(* Request-scoped observability and rate-limiting pipeline of the          *)
(* MedHive symptom-analysis service (SymptomAnalysis/backend).             *)
(*                                                                         *)
(*   SpecLimiter  RateLimiter of rate_limiter.py, both backends            *)
(*   SpecStage    RateLimitMiddleware of rate_limiter.py                   *)
(*   SpecContext  RequestContext of context.py, one task per request       *)
(*   SpecChain    the middleware chain wired in main.py                    *)
(***************************************************************************)
EXTENDS Integers, Sequences, FiniteSets, TLC

VARIABLES
    \* ---- rate_limiter.py ----
    now,            \* time.time(), whole seconds since the limiter was built
    ticks,          \* number of clock advances so far (bounds the run)
    ncalls,         \* number of calls of "ip:1.2.3.4" so far (bounds the run)
    max_requests,   \* settings.RATE_LIMIT_MAX_REQUESTS
    enabled,        \* settings.RATE_LIMIT_ENABLED
    storage,        \* RateLimiter._in_memory_storage: identifier -> window -> count
    plain,          \* identifier -> its inner map is a plain dict (no default)
    last_cleanup,   \* RateLimiter._last_cleanup
    rstore,         \* the Redis keys rl:<identifier>:<window> -> count, expiry
    redis_up,       \* the Redis server answers (TRUE) or is unreachable
    hist,           \* history: per identifier, its calls in its latest window
    last,           \* the latest is_rate_limited call and what it returned
    mw,             \* what RateLimitMiddleware.dispatch did with the latest request
    \* ---- context.py ----
    cv,             \* task -> the values of the four ContextVars in its Context
    heap,           \* dict object -> key -> value: the metadata dicts
    scopes,         \* task -> the RequestContext objects whose `with` it is inside
    entered,        \* task -> number of RequestContext objects it has created
    obs,            \* the latest RequestContext operation and what it returned
    \* ---- main.py, middleware.py ----
    served,         \* requests the application has answered
    inbound,        \* the latest request
    sent,           \* the response sent for it, with what was logged on the way
    mw_requests,    \* RateLimitMiddleware.requests of middleware.py
    \* ---- model_monitor.py ----
    mclock,         \* datetime.now(), in whole seconds
    workload,       \* the kind of traffic the monitor is given
    latencies,      \* ModelMonitor.latencies
    request_times,  \* ModelMonitor.request_times
    errors,         \* ModelMonitor.errors
    last_error,     \* ModelMonitor.last_error ("": None)
    predictions,    \* ModelMonitor.predictions, as the disease each one names
    reference_distribution,  \* ModelMonitor.reference_distribution
    recorded,       \* every record_prediction call so far: its time, whether it had an error
    mon,            \* the latest ModelMonitor operation and what came of it
    kl_p,           \* _calculate_kl_divergence: its argument p
    kl_q,           \* its argument q
    kl_result,      \* the sign of what it returned ("none": not called yet)
    svc,             \* the latest ChatService.analyze_symptoms call: what its
                    \* collaborators did and how it ended
    downstream,     \* ModelErrorMiddleware alone: what its call_next did
    request_state, \* and request.state.request_id (0: not set)
    self_rate_limit, \* RateLimitMiddleware.rate_limit of middleware.py
    mtime,          \* time.time() as that middleware reads it
    pending,        \* the requests whose call_next has not returned
    admitted,       \* history: per client, the arrival times of the requests passed on
    denied,         \* history: per client, how many requests were answered 429 and when the latest arrived
    mwlast,         \* the latest RateLimitMiddleware.dispatch of middleware.py
    tpc,             \* per thread: where it is in record_prediction or get_current_metrics
    lock,           \* ModelMonitor._lock: the thread that acquired it (0: unlocked)
    tcall,          \* per thread: the call it is making
    tcalls,         \* per thread: the calls it has started
    tnow,           \* per thread: record_prediction's local `now`
    tlat,           \* per thread: get_current_metrics's local `latencies`
    snapshot,       \* per thread: what its latest get_current_metrics returned
    completed,      \* history: the samples whose record_prediction has stored them
    instance,       \* ModelMonitor._instance (0: None)
    objs,           \* the ModelMonitor objects made: how often _initialize ran on each, and its latencies
    cpc,            \* per thread: where it is in ModelMonitor.__new__
    constructions,  \* per thread: the ModelMonitor() calls it has started
    held,           \* per thread: what its latest ModelMonitor() returned (0: nothing yet)
    returned,       \* history: every object a ModelMonitor() call returned
    stored         \* history: the record_prediction calls that stored a sample

limiterVars == <<now, ticks, ncalls, max_requests, enabled, storage, plain,
                 last_cleanup, rstore, redis_up, hist, last, mw>>

ctxVars == <<cv, heap, scopes, entered, obs>>

chainVars == <<served, inbound, sent, mw_requests>>

monVars == <<mclock, workload, latencies, request_times, errors, last_error,
             predictions, reference_distribution, recorded, mon>>

klVars == <<kl_p, kl_q, kl_result>>

svcVars == <<svc>>

errVars == <<downstream, request_state>>

minVars == <<self_rate_limit, mtime, pending, admitted, denied, mwlast>>

thrVars == <<tpc, lock, tcall, tcalls, tnow, tlat, snapshot, completed>>

sglVars == <<instance, objs, cpc, constructions, held, returned, stored>>

vars == <<limiterVars, ctxVars, chainVars, monVars, klVars, svcVars, errVars, minVars, thrVars, sglVars>>

\* What the actions on one part of the state leave alone.
exceptLimiter == <<ctxVars, chainVars, monVars, klVars, svcVars, errVars, minVars, thrVars, sglVars>>
exceptCtx == <<limiterVars, chainVars, monVars, klVars, svcVars, errVars, minVars, thrVars, sglVars>>
exceptChain == <<limiterVars, ctxVars, monVars, klVars, svcVars, errVars, minVars, thrVars, sglVars>>
exceptMon == <<limiterVars, ctxVars, chainVars, klVars, svcVars, errVars, minVars, thrVars, sglVars>>
exceptKL == <<limiterVars, ctxVars, chainVars, monVars, svcVars, errVars, minVars, thrVars, sglVars>>
exceptSvc == <<limiterVars, ctxVars, chainVars, monVars, klVars, errVars, minVars, thrVars, sglVars>>
exceptChainAndErr == <<limiterVars, ctxVars, monVars, klVars, svcVars, minVars, thrVars, sglVars>>
exceptErr == <<limiterVars, ctxVars, chainVars, monVars, klVars, svcVars, minVars, thrVars, sglVars>>
exceptChainAndMin == <<limiterVars, ctxVars, monVars, klVars, svcVars, errVars, thrVars, sglVars>>
exceptMin == <<limiterVars, ctxVars, chainVars, monVars, klVars, svcVars, errVars, thrVars, sglVars>>
exceptMonAndThr == <<limiterVars, ctxVars, chainVars, klVars, svcVars, errVars, minVars, sglVars>>
exceptThr == <<limiterVars, ctxVars, chainVars, monVars, klVars, svcVars, errVars, minVars, sglVars>>
exceptThrAndSgl == <<limiterVars, ctxVars, chainVars, monVars, klVars, svcVars, errVars, minVars>>
exceptSgl == <<limiterVars, ctxVars, chainVars, monVars, klVars, svcVars, errVars, minVars, thrVars>>

------------------------------------------------------------------------------
(* Bounds *)

MaxTicks == 2
MaxCalls == 22
MaxEnters == 2        \* RequestContext objects created, all tasks together
MaxServed == 2        \* requests sent through the application
MaxSamples == 3       \* record_prediction calls of mixed traffic
MaxBulk == 1001       \* record_prediction calls of bulk traffic
MaxMonTicks == 2      \* clock advances seen by the monitor
MaxFine == 2          \* largest fine part of a probability, in units of 1e-11
MaxMinuteTicks == 2   \* the clock of middleware.py's limiter runs to 40 times this
MaxArrivals == 4      \* requests arriving at middleware.py's limiter
MaxThreadCalls == 2   \* calls each thread makes to the monitor
MaxConstructions == 2 \* ModelMonitor() calls of each thread

(* Program constants *)

RATE_LIMIT_WINDOW_SECONDS == 60
CleanupInterval == 60
AnalyzeMax == 20
DefaultMax == 100
HealthMax == 200

TickSteps == {5, 61}

MaxTime == MaxTicks * 61
Windows == 0 .. (MaxTime \div RATE_LIMIT_WINDOW_SECONDS)

AnalyzePath == "/api/v1/chat/analyze"
HealthPath  == "/api/v1/health"
OtherPath   == "/chat/feedback"
Paths == {AnalyzePath, OtherPath}

\* settings.RATE_LIMIT_MAX_REQUESTS as shipped, and an operator's override
\* (the field is read from the environment) that leaves out "default".
ShippedMaxRequests ==
    [p \in {"default", AnalyzePath, HealthPath} |->
        IF p = AnalyzePath THEN AnalyzeMax
        ELSE IF p = HealthPath THEN HealthMax ELSE DefaultMax]

NoDefaultMaxRequests == [p \in {AnalyzePath} |-> AnalyzeMax]

MaxRequestsSettings == {ShippedMaxRequests, NoDefaultMaxRequests}

\* Requests as the rate-limit stage sees them: request.state.user_id,
\* the X-Forwarded-For chain and the peer address ("" / <<>> when absent).
Requests ==
    { [user |-> "",   fwd |-> <<>>,                      client |-> "1.2.3.4"],
      [user |-> "",   fwd |-> <<"1.2.3.4", "10.0.0.1">>, client |-> "10.0.0.9"],
      [user |-> "42", fwd |-> <<>>,                      client |-> "1.2.3.4"] }

\* RateLimitMiddleware._get_client_identifier
get_client_identifier(req) ==
    IF req.user # "" THEN <<"user", req.user>>
    ELSE IF req.fwd # <<>> THEN <<"ip", Head(req.fwd)>>
    ELSE <<"ip", IF req.client # "" THEN req.client ELSE "unknown">>

Ids == { get_client_identifier(r) : r \in Requests }

Max(a, b) == IF a > b THEN a ELSE b

------------------------------------------------------------------------------
(* RateLimiter (rate_limiter.py)                                            *)

\* int(time.time() / self.window_seconds)
current_window_at(t) == t \div RATE_LIMIT_WINDOW_SECONDS

\* The literal `False, {"remaining": 0, "reset": 0}` of lines 45 and 69; error
\* names the exception that was caught and logged.
fail_open(err) ==
    [limited |-> FALSE, remaining |-> 0, reset |-> 0, error |-> err, raised |-> FALSE]

\* A handler that logs and lets the exception go on to the caller.
on_error_reraise(err) == [fail_open(err) EXCEPT !.raised = TRUE]

\* is_rate_limited, lines 43-45: `except Exception` logs and fails open.
on_error(err) == fail_open(err)

\* The quota metadata without the floor at zero.
quota_no_floor(mx, count, cw) ==
    [limited |-> count > mx,
     remaining |-> mx - count,
     reset |-> (cw + 1) * RATE_LIMIT_WINDOW_SECONDS,
     error |-> "", raised |-> FALSE]

\* lines 83-89 (and 60-66): the decision and the quota metadata from a count.
quota(mx, count, cw) ==
    [limited |-> count > mx,
     remaining |-> Max(0, mx - count),
     reset |-> (cw + 1) * RATE_LIMIT_WINDOW_SECONDS,
     error |-> "", raised |-> FALSE]

\* identifier in self._in_memory_storage: an inner map exists and, as every
\* inner map is created by an increment, it holds a window.
Present(st, id) == \E w \in Windows : st[id][w] > 0

\* _cleanup_old_windows: every identifier's inner map is REPLACED by a dict
\* comprehension (a plain dict, no longer a defaultdict) keeping the windows
\* >= current_window - 1; an identifier left without a window is deleted.
cleanup_old_windows(st, pl, t) ==
    LET cw  == current_window_at(t)
        st1 == [i \in Ids |-> [w \in Windows |->
                    IF w >= cw - 1 THEN st[i][w] ELSE 0]]
    IN  [st |-> st1,
         pl |-> [i \in Ids |-> IF Present(st, i) THEN Present(st1, i) ELSE pl[i]],
         lc |-> t]

\* _check_memory_limit. exc names the exception that leaves the function:
\* `d[current_window] += 1` on a plain dict without that key is a KeyError,
\* raised before anything is stored (the sweep of line 77 has already run).
check_memory_limit(st, pl, lc, id, cw, mx, t) ==
    LET swept == IF t - lc > CleanupInterval
                 THEN cleanup_old_windows(st, pl, t)
                 ELSE [st |-> st, pl |-> pl, lc |-> lc]
    IN  IF swept.pl[id] /\ swept.st[id][cw] = 0
        THEN [exc |-> "KeyError", res |-> on_error("KeyError"),
              st |-> swept.st, pl |-> swept.pl, lc |-> swept.lc]
        ELSE LET st2 == [swept.st EXCEPT ![id][cw] = @ + 1]
             IN  [exc |-> "", res |-> quota(mx, st2[id][cw], cw),
                  st |-> st2, pl |-> swept.pl, lc |-> swept.lc]

\* self.max_requests.get(path, self.max_requests["default"]): the default is
\* looked up before .get is called, so a missing "default" is a KeyError.
lookup_max(mr, path) ==
    IF "default" \notin DOMAIN mr THEN [exc |-> "KeyError", mx |-> 0]
    ELSE [exc |-> "", mx |-> IF path \in DOMAIN mr THEN mr[path] ELSE mr["default"]]

\* is_rate_limited with the local backend (redis_url unset).
is_rate_limited_memory(mr, st, pl, lc, id, path, t) ==
    LET cw == current_window_at(t)
        m  == lookup_max(mr, path)
    IN  IF m.exc # ""
        THEN [res |-> on_error(m.exc), st |-> st, pl |-> pl, lc |-> lc]
        ELSE LET c == check_memory_limit(st, pl, lc, id, cw, m.mx, t)
             IN  [res |-> IF c.exc # "" THEN on_error(c.exc) ELSE c.res,
                  st |-> c.st, pl |-> c.pl, lc |-> c.lc]

\* ---- the Redis backend ----

NoKey == [count |-> 0, exp |-> 0]

\* Keys whose TTL has run out are gone.
redis_expired(rs, t) ==
    [i \in Ids |-> [w \in Windows |-> IF rs[i][w].exp > t THEN rs[i][w] ELSE NoKey]]

\* pipe.incr(key) on a pipeline only queues the command and returns the
\* pipeline; the integer reply exists only in the list pipe.execute() returns,
\* which line 58 discards.
pipe_incr == [type |-> "Pipeline", v |-> 0]

\* Python's a - b for an int a: defined for an int b, a TypeError otherwise.
py_sub(a, b) ==
    IF b.type = "int" THEN [type |-> "int", v |-> a - b.v]
    ELSE [type |-> "TypeError", v |-> 0]

\* pipe.execute(): INCR then EXPIRE key window_seconds, atomically.
pipe_execute(rs, id, cw, t) ==
    [rs EXCEPT ![id][cw] = [count |-> @.count + 1,
                            exp |-> t + RATE_LIMIT_WINDOW_SECONDS]]

\* _check_redis_limit. A RedisError of execute() is caught inside (line 67);
\* any other exception leaves the function.
check_redis_limit(rs, id, cw, mx, t, storeUp) ==
    LET count == pipe_incr
        live  == redis_expired(rs, t)
    IN  IF ~storeUp
        THEN [exc |-> "", res |-> fail_open("RedisError"), rs |-> live]
        ELSE LET rs2  == pipe_execute(live, id, cw, t)
                 diff == py_sub(mx, count)
             IN  IF diff.type # "int"
                 THEN [exc |-> "TypeError", res |-> on_error("TypeError"), rs |-> rs2]
                 ELSE [exc |-> "", res |-> quota(mx, count.v, cw), rs |-> rs2]

\* is_rate_limited with the distributed backend (redis_url set).
is_rate_limited_redis(mr, rs, id, path, t, storeUp) ==
    LET cw == current_window_at(t)
        m  == lookup_max(mr, path)
    IN  IF m.exc # ""
        THEN [res |-> on_error(m.exc), rs |-> rs]
        ELSE LET c == check_redis_limit(rs, id, cw, m.mx, t, storeUp)
             IN  [res |-> IF c.exc # "" THEN on_error(c.exc) ELSE c.res,
                  rs |-> c.rs]

------------------------------------------------------------------------------
(* RequestContext (context.py)                                              *)

\* Concurrent requests: each is an asyncio task with its own contextvars
\* Context, started from the process's root Context, where no variable is set.
Tasks == {1, 2}
Keys == {"path"}

\* The one dict object made at import time by `default={}` (line 10), which
\* metadata_ctx.get() returns in every Context where the variable is not set.
DefaultDict == <<0, 0>>
DictRefs == {DefaultDict} \cup (Tasks \X (1 .. MaxEnters))

\* A metadata value, tagged with the task that set it and whether that task
\* was inside a `with RequestContext` block then; by = 0 is "no such key".
Absent == [by |-> 0, inside |-> FALSE]
EmptyDict == [k \in Keys |-> Absent]

\* The ContextVar defaults of lines 7-10: None, None, None and the shared dict.
Unset == [request_id |-> 0, user_id |-> "", start_time |-> 0, metadata |-> DefaultDict]

NoObs == [task |-> 0, op |-> "none", key |-> "", seen |-> EmptyDict,
          raised |-> "", before |-> Unset]

InitCtxVars ==
    /\ cv = [t \in Tasks |-> Unset]
    /\ heap = [d \in DictRefs |-> EmptyDict]
    /\ scopes = [t \in Tasks |-> <<>>]
    /\ entered = [t \in Tasks |-> 0]
    /\ obs = NoObs

\* str(uuid.uuid4()): a token no other RequestContext has.
uuid4(t, n) == 10 * t + n

\* `metadata_ctx.set({})` of line 27 bound to the shared default dict instead.
new_metadata_shared(t, n) == DefaultDict

\* `metadata_ctx.set({})`, line 27: a new, empty dict object.
new_metadata(t, n) == <<t, n>>

\* RequestContext.__init__ then __enter__ (lines 15-29) in task t, its n-th
\* object: the four variables are set and the four tokens kept; a token holds
\* the variable's value (or unset state) from before the set.
RequestContext_enter(c, t, n, rid, uid) ==
    LET request_id == IF rid # 0 THEN rid ELSE uuid4(t, n)
        bound == [request_id |-> request_id, user_id |-> uid,
                  start_time |-> uuid4(t, n), metadata |-> new_metadata(t, n)]
    IN  [cv |-> bound,
         self |-> [request_id |-> request_id, user_id |-> uid,
                   tokens |-> << <<"request_id", c.request_id>>,
                                 <<"user_id", c.user_id>>,
                                 <<"start_time", c.start_time>>,
                                 <<"metadata", c.metadata>> >>]]

\* The values the tokens of a RequestContext object hold: what the four
\* variables were when __enter__ set them (Token.old_value).
old_values(self) ==
    [request_id |-> self.tokens[1][2], user_id |-> self.tokens[2][2],
     start_time |-> self.tokens[3][2], metadata |-> self.tokens[4][2]]

\* The user a request is made for (request.state.user_id, middleware.py
\* line 29): the first request is anonymous, the second is not.
user_of(t) == IF t = 1 THEN "" ELSE "u2"

\* `contextvars.ContextVar.reset(token)`, line 34: the method is taken from the
\* class and given the Token as self, which is no ContextVar, so Python raises
\* TypeError before any variable is touched.
ContextVar_reset(c, token) == [cv |-> c, raised |-> "TypeError"]

RECURSIVE reset_all(_, _)
\* The loop of lines 33-34; the first exception ends it.
reset_all(c, tokens) ==
    IF tokens = <<>> THEN [cv |-> c, raised |-> ""]
    ELSE LET r == ContextVar_reset(c, Head(tokens))
         IN  IF r.raised # "" THEN r ELSE reset_all(r.cv, Tail(tokens))

\* RequestContext.__exit__
RequestContext_exit(c, self) == reset_all(c, self.tokens)

\* `with RequestContext(request_id, user_id) as ctx:` is entered by task t.
\* A dict object made by __enter__ starts empty.
Enter(t) ==
    \E rid \in {0, 7} :
        /\ entered[1] + entered[2] < MaxEnters
        /\ LET n == entered[t] + 1
               e == RequestContext_enter(cv[t], t, n, rid, user_of(t))
           IN  /\ cv' = [cv EXCEPT ![t] = e.cv]
               /\ heap' = [heap EXCEPT ![e.cv.metadata] =
                              IF e.cv.metadata = DefaultDict THEN @ ELSE EmptyDict]
               /\ scopes' = [scopes EXCEPT ![t] = Append(@, e.self)]
               /\ entered' = [entered EXCEPT ![t] = n]
               /\ obs' = [NoObs EXCEPT !.op = "enter"]

\* Task t leaves its innermost `with` block, by a return (exc = FALSE) or by
\* an exception raised in the block (exc = TRUE): __exit__ runs either way.
Exit(t) ==
    \E exc \in BOOLEAN :
        /\ scopes[t] # <<>>
        /\ LET self == scopes[t][Len(scopes[t])]
               x    == RequestContext_exit(cv[t], self)
           IN  /\ cv' = [cv EXCEPT ![t] = x.cv]
               /\ obs' = [NoObs EXCEPT !.task = t,
                                       !.op = IF exc THEN "exit:exception" ELSE "exit:return",
                                       !.raised = x.raised,
                                       !.before = old_values(self)]
        /\ scopes' = [scopes EXCEPT ![t] = SubSeq(@, 1, Len(@) - 1)]
        /\ UNCHANGED <<heap, entered>>

\* RequestContext.set_metadata(key, value), lines 54-59: the dict the
\* variable holds is changed in place and set again.
SetMetadata(t) ==
    \E k \in Keys :
        /\ heap' = [heap EXCEPT ![cv[t].metadata][k] =
                        [by |-> t, inside |-> scopes[t] # <<>>]]
        /\ obs' = [NoObs EXCEPT !.op = "set"]
        /\ UNCHANGED <<cv, scopes, entered>>

\* RequestContext.get_metadata(key, default), lines 61-64
GetMetadata(t) ==
    \E k \in Keys :
        /\ obs' = [NoObs EXCEPT !.task = t, !.op = "get", !.key = k,
                                !.seen = [EmptyDict EXCEPT ![k] = heap[cv[t].metadata][k]]]
        /\ UNCHANGED <<cv, heap, scopes, entered>>

\* RequestContext.get_all_metadata(), lines 66-69: a copy of the dict.
GetAllMetadata(t) ==
    /\ obs' = [NoObs EXCEPT !.task = t, !.op = "get_all", !.seen = heap[cv[t].metadata]]
    /\ UNCHANGED <<cv, heap, scopes, entered>>

------------------------------------------------------------------------------
(* The application of main.py: its middleware, outermost first, is          *)
(* metrics_middleware, RequestLoggingMiddleware, ModelErrorMiddleware,      *)
(* RequestTracingMiddleware, RateLimitMiddleware, SecurityHeadersMiddleware *)
(* and CORSMiddleware (add_middleware puts each new one outside the ones    *)
(* added before it), around the routers.                                    *)

SecurityHeaders ==
    {"X-Content-Type-Options", "X-Frame-Options", "X-XSS-Protection",
     "Strict-Transport-Security", "Content-Security-Policy"}

RATE_LIMIT == 1000
MinuteWindow == 60

ClientHosts == {"1.2.3.4", "5.6.7.8"}

\* headers={"Retry-After": "60"}
RetryAfter == 60
Routes == {"/chat/analyze"}

\* What the route function, with its dependencies, does with a request.
RouteOutcomes == {"ok", "HTTPException", "ModelServiceError", "Exception"}

\* A request: its X-Request-ID header (0: none), the peer's host ("": the
\* server gave no client address), its path and what its route will do.
HttpRequests ==
    [hdr : {0, 7}, client : {""} \cup ClientHosts,
     path : Routes \cup {"/missing"}, route : RouteOutcomes]

\* A response with no headers of interest yet.  logs: the request ids written
\* in log records while the request was handled; handled: its route ran.
\* body: what the body is ("result", "text": the limiter's plain text,
\* "detail": FastAPI's {"detail": ...} of an HTTPException, "structured" and "generic": the two bodies of
\* ModelErrorMiddleware, "plain": the framework's text), body_rid: the request
\* id in it, leak: it holds the text of an exception.  trail: the exceptions
\* raised while the request was handled, each with the place that raised it;
\* errlog: those an error-level record was written for; escaped: an exception
\* left the outermost middleware.  exc_status, exc_code: the status_code and
\* error_code attributes of the exception; body_msg, body_code, body_type: the
\* message, error_code and error_type of a ModelErrorMiddleware body
\* (body_msg "exception": text taken from the exception).  stages: the
\* middleware the request entered, in the order it entered them; ctx_rid: the
\* request id of the RequestContext the request ran in; incs, observed: the
\* increments of http_requests_total and the observations of
\* http_request_duration_seconds made for the request.
Response(status) ==
    [kind |-> "response", status |-> status, sec |-> {}, rid |-> 0,
     retry |-> FALSE, exc |-> "", logs |-> {}, handled |-> FALSE,
     body |-> "", body_rid |-> 0, leak |-> FALSE, origin |-> "",
     context |-> {}, trail |-> {}, errlog |-> {}, escaped |-> FALSE,
     retry_after |-> 0, exc_status |-> 0, exc_code |-> "", body_msg |-> "", body_code |-> "",
     body_type |-> "", stages |-> <<>>, ctx_rid |-> 0, incs |-> 0,
     observed |-> 0]

\* The exception classes of exceptions.py, and the error_code each passes to
\* ModelServiceError.__init__ (the base class takes it from its caller).
ModelServiceErrors ==
    {"ModelServiceError", "ModelInferenceError", "DriftDetectionError",
     "PerformanceDegradationError", "MLOpsTrackingError", "FederatedLearningError"}

error_code(exc) ==
    CASE exc = "ModelInferenceError" -> "MODEL_INFERENCE_ERROR"
      [] exc = "DriftDetectionError" -> "DRIFT_DETECTION_ERROR"
      [] exc = "PerformanceDegradationError" -> "PERFORMANCE_DEGRADATION"
      [] exc = "MLOpsTrackingError" -> "MLOPS_TRACKING_ERROR"
      [] exc = "FederatedLearningError" -> "FL_ERROR"
      [] exc = "ModelServiceError" -> "CALLER_GIVEN"
      [] OTHER -> ""

\* An exception travelling outwards; status_code defaults to 500.
Raise(exc) ==
    [Response(0) EXCEPT !.kind = "raise", !.exc = exc,
                        !.exc_status = IF exc \in ModelServiceErrors THEN 500 ELSE 0,
                        !.exc_code = error_code(exc)]

\* The exception exc raised at `origin` while `prev` was the outcome so far:
\* an exception being handled there becomes its __context__.
RaiseAt(exc, origin, prev) ==
    [Raise(exc) EXCEPT
        !.origin = origin,
        !.context = IF prev.kind = "raise"
                    THEN prev.context \cup {<<prev.exc, prev.origin>>} ELSE {},
        !.trail = prev.trail \cup {<<exc, origin>>},
        !.errlog = prev.errlog,
        !.logs = prev.logs,
        !.handled = prev.handled,
        !.stages = prev.stages,
        !.ctx_rid = prev.ctx_rid,
        !.incs = prev.incs,
        !.observed = prev.observed]

\* A response made in place of the outcome `prev`.
Answer(status, prev) ==
    [Response(status) EXCEPT !.logs = prev.logs, !.handled = prev.handled,
                             !.trail = prev.trail, !.errlog = prev.errlog,
                             !.stages = prev.stages, !.ctx_rid = prev.ctx_rid,
                             !.incs = prev.incs, !.observed = prev.observed]

\* The request entered `stage` before whatever led to the outcome `out`.
entering(stage, out) == [out EXCEPT !.stages = <<stage>> \o @]

\* logger.error(..., exc_info=True) for the exception `out`: the record holds
\* the traceback of the exception and of the ones it replaced.
logger_error(out) ==
    [out EXCEPT !.errlog = @ \cup {<<out.exc, out.origin>>} \cup out.context]

NoRequest == [hdr |-> 0, client |-> "", path |-> "", route |-> "ok"]

InitChainVars ==
    /\ served = 0
    /\ inbound = NoRequest
    /\ sent = Response(0)
    /\ mw_requests = [ip \in ClientHosts |-> <<>>]

\* The route function analyze_symptoms of routes/chat.py (submit_feedback has
\* the same shape), given how chat_service.analyze_symptoms ends: an exception
\* of the service becomes HTTPException(500) whose detail holds str(e), which
\* FastAPI answers with the body {"detail": ...}.
analyze_symptoms(service) ==
    IF service = "return"
    THEN [Response(200) EXCEPT !.handled = TRUE, !.body = "result"]
    ELSE [Response(500) EXCEPT !.handled = TRUE, !.body = "detail", !.leak = TRUE,
                               !.trail = {<<"Exception", "service">>}]

\* The routers of main.py lines 79-82 under FastAPI's exception handling: an
\* unknown path is a 404, an HTTPException becomes a response, any other
\* exception leaves the router.
router(req) ==
    IF req.path \notin Routes THEN [Response(404) EXCEPT !.body = "detail"]
    ELSE CASE req.route = "ok" -> analyze_symptoms("return")
           [] req.route = "HTTPException" -> analyze_symptoms("raise")
           [] OTHER -> RaiseAt(req.route, "route", [Response(0) EXCEPT !.handled = TRUE])

\* Each dispatch below is given, as call_next, what `await call_next(request)`
\* does if dispatch gets that far: the outcome of the application inside it.

\* SecurityHeadersMiddleware.dispatch
SecurityHeadersMiddleware_dispatch(req, call_next) ==
    IF call_next.kind = "raise" THEN entering("security", call_next)
    ELSE entering("security", [call_next EXCEPT !.sec = SecurityHeaders])

\* RateLimitMiddleware.cleanup_old_requests; a host with no timestamps left
\* is a host that is not in the dict.
cleanup_old_requests(rq, current_time) ==
    LET Recent(ts) == ts > current_time - MinuteWindow
    IN  [ip \in DOMAIN rq |-> SelectSeq(rq[ip], Recent)]

\* is_rate_limited comparing with > where line 234 has >=.
is_rate_limited_allow_equal(rate_limit, rq, client_ip, current_time) ==
    LET Recent(ts) == ts > current_time - MinuteWindow
    IN  IF rq[client_ip] = <<>> THEN FALSE
        ELSE Len(SelectSeq(rq[client_ip], Recent)) > rate_limit

\* RateLimitMiddleware.is_rate_limited of middleware.py, rate_limit being
\* self.rate_limit.
is_rate_limited(rate_limit, rq, client_ip, current_time) ==
    LET Recent(ts) == ts > current_time - MinuteWindow
    IN  IF rq[client_ip] = <<>> THEN FALSE
        ELSE Len(SelectSeq(rq[client_ip], Recent)) >= rate_limit

\* RateLimitMiddleware.track_request
track_request(rq, client_ip, current_time) ==
    [rq EXCEPT ![client_ip] = Append(@, current_time)]

\* dispatch with track_request moved above the check: every arrival is
\* recorded, the denied ones too.
RateLimitMiddleware_dispatch_track_first(req, rate_limit, rq, current_time, call_next) ==
    IF req.client = ""
    THEN [out |-> entering("ratelimit", RaiseAt("AttributeError", "ratelimit", Response(0))),
          requests |-> rq]
    ELSE LET cleaned == cleanup_old_requests(rq, current_time)
             tracked == track_request(cleaned, req.client, current_time)
         IN  IF is_rate_limited(rate_limit, cleaned, req.client, current_time)
             THEN [out |-> entering("ratelimit",
                               [Response(429) EXCEPT !.retry = TRUE, !.retry_after = RetryAfter,
                                                     !.body = "text"]),
                   requests |-> tracked]
             ELSE [out |-> entering("ratelimit", call_next),
                   requests |-> tracked]

\* RateLimitMiddleware.dispatch of middleware.py, with the dict it leaves.
RateLimitMiddleware_dispatch(req, rate_limit, rq, current_time, call_next) ==
    IF req.client = ""
    THEN [out |-> entering("ratelimit", RaiseAt("AttributeError", "ratelimit", Response(0))),
          requests |-> rq]
    ELSE LET cleaned == cleanup_old_requests(rq, current_time)
         IN  IF is_rate_limited(rate_limit, cleaned, req.client, current_time)
             THEN [out |-> entering("ratelimit",
                               [Response(429) EXCEPT !.retry = TRUE, !.retry_after = RetryAfter,
                                                     !.body = "text"]),
                   requests |-> cleaned]
             ELSE [out |-> entering("ratelimit", call_next),
                   requests |-> track_request(cleaned, req.client, current_time)]

\* The attributes a RequestContext object has (context.py lines 12-79).
RequestContextMethods ==
    {"request_id", "user_id", "start_time", "tokens", "get_request_id",
     "get_user_id", "get_duration_ms", "set_metadata", "get_metadata",
     "get_all_metadata", "get_context_dict"}

\* The end of a `with RequestContext(...)` block whose body ended as `block`:
\* __exit__ runs, and an exception it raises is what leaves the block.
with_exit(c, self, block, stage) ==
    IF RequestContext_exit(c, self).raised = "" THEN block
    ELSE [block EXCEPT
             !.out = RaiseAt(RequestContext_exit(c, self).raised, stage, block.out)]

\* RequestTracingMiddleware.dispatch, for the n-th request, in a task whose
\* Context holds c; rq is the limiter's dict before the request.
RequestTracingMiddleware_dispatch(req, c, n, rq, call_next) ==
    LET request_id == IF req.hdr # 0 THEN req.hdr ELSE uuid4(n, 3)
        e == RequestContext_enter(c, n, 2, 0, "")
        block ==
            IF "set_request_id" \notin RequestContextMethods
                   \/ "set_user_id" \notin RequestContextMethods
                   \/ req.client = ""
            THEN [out |-> RaiseAt("AttributeError", "tracing", Response(0)),
                  requests |-> rq]
            ELSE IF call_next.out.kind = "raise"
                 THEN [call_next EXCEPT
                          !.out = logger_error([@ EXCEPT !.logs = @ \cup {request_id}])]
                 ELSE [call_next EXCEPT !.out.logs = @ \cup {request_id},
                                        !.out.rid = request_id,
                                        !.out.incs = @ + 1,
                                        !.out.observed = @ + 1]
        left == with_exit(e.cv, e.self, block, "tracing")
    IN  [left EXCEPT !.out = entering("tracing", @)]

\* ModelErrorMiddleware.dispatch that lets the exception through.
ModelErrorMiddleware_dispatch_reraise(req, n, state_request_id, call_next) ==
    [call_next EXCEPT !.out = entering("error", @)]

\* ModelErrorMiddleware.dispatch; request_state is request.state.request_id
\* (0: not set).
ModelErrorMiddleware_dispatch(req, n, state_request_id, call_next) ==
    LET request_id == IF state_request_id # 0 THEN state_request_id ELSE uuid4(n, 4)
        e == call_next.out
        caught == logger_error([e EXCEPT !.logs = @ \cup {request_id}])
        translated ==
            IF e.exc \in ModelServiceErrors
            THEN [Answer(e.exc_status, caught) EXCEPT
                     !.body = "structured", !.body_msg = "exception",
                     !.body_code = e.exc_code, !.body_type = e.exc,
                     !.body_rid = request_id]
            ELSE [Answer(500, caught) EXCEPT
                     !.body = "generic", !.body_msg = "An unexpected error occurred",
                     !.body_code = "INTERNAL_SERVER_ERROR",
                     !.body_type = "UnhandledException",
                     !.body_rid = request_id]
    IN  IF e.kind = "raise"
        THEN [call_next EXCEPT !.out = entering("error", translated)]
        ELSE [call_next EXCEPT !.out = entering("error", @)]

\* RequestLoggingMiddleware.dispatch inside `with RequestContext(...) as ctx`,
\* e being what __init__ and __enter__ made.
RequestLoggingMiddleware_dispatch(req, e, call_next) ==
    LET request_id == e.self.request_id
        block ==
            IF call_next.out.kind = "raise"
            THEN [call_next EXCEPT
                     !.out = logger_error([@ EXCEPT !.logs = @ \cup {e.cv.request_id},
                                                    !.ctx_rid = e.cv.request_id])]
            ELSE [call_next EXCEPT !.out.logs = @ \cup {e.cv.request_id},
                                   !.out.rid = request_id,
                                   !.out.ctx_rid = e.cv.request_id]
        left == with_exit(e.cv, e.self, block, "logging")
    IN  [left EXCEPT !.out = entering("logging", @)]

\* metrics_middleware: the counters move only when a response comes back.
metrics_middleware(req, call_next) ==
    [out |-> IF call_next.out.kind = "response"
             THEN [call_next.out EXCEPT !.incs = @ + 1, !.observed = @ + 1]
             ELSE call_next.out,
     requests |-> call_next.requests,
     counted |-> call_next.out.kind = "response"]

\* The FastAPI application object around its middleware: an exception that
\* leaves the middleware is answered by the framework's plain 500 response.
app(req, call_next) ==
    IF call_next.out.kind = "raise"
    THEN [call_next EXCEPT !.out = [Answer(500, call_next.out) EXCEPT
                                       !.body = "plain", !.escaped = TRUE]]
    ELSE call_next

------------------------------------------------------------------------------
(* ModelMonitor (model_monitor.py)                                          *)

MetricsWindow == 300              \* timedelta(minutes=5), in seconds
drift_window_size == 1000
DriftThresholdMicro == 100000     \* drift_threshold 0.1, in millionths
LatencyLimitCenti == 200          \* 2.0 seconds, in hundredths
ErrorRatePercent == 5             \* 0.05

MonTickSteps == {1, 300}

\* The diseases predictions name, pred.get("predicted_disease", "unknown"); a
\* prediction dict without the key is one that names the disease "unknown".
Diseases == {"A", "B"}

\* The attributes of MetricsTracker (metrics.py lines 36-49).
MetricsTrackerMethods == {"track_request", "track_model_prediction", "track_model_error"}

\* A distribution: how often each disease occurs, out of total; a disease
\* with count 0 is a key the dict does not have.  total = 0 is None.
NoDistribution == [cnt |-> [k \in Diseases |-> 0], total |-> 0]

count_of(seq, k) == Cardinality({i \in 1 .. Len(seq) : seq[i] = k})

\* ModelMonitor._calculate_distribution
calculate_distribution(preds) ==
    [cnt |-> [k \in Diseases |-> count_of(preds, k)], total |-> Len(preds)]

\* Natural logarithms of the primes below 10, in millionths.
LnPrimeMicro == [p \in {2, 3, 5, 7} |->
                    CASE p = 2 -> 693147 [] p = 3 -> 1098612
                      [] p = 5 -> 1609438 [] p = 7 -> 1945910]
Ln10Micro == 2302585

RECURSIVE ln_micro(_)
\* np.log(n) in millionths, for the whole numbers whose prime factors are
\* below 10 (the counts the traffic of this model produces).
ln_micro(n) ==
    IF n = 1 THEN 0
    ELSE LET p == CHOOSE q \in {2, 3, 5, 7} : n % q = 0
         IN  LnPrimeMicro[p] + ln_micro(n \div p)

\* One term of the sum of line 194, p_val * np.log(p_val / q_val), in
\* millionths.  pc/pt and qc/qt are the probabilities; a count of 0 is a
\* missing key, whose value is taken as 1e-10 (lines 190-191).  A term whose
\* p_val is 1e-10 is below a millionth in size and counts as 0.
kl_term(pc, pt, qc, qt) ==
    IF pc = 0 THEN 0
    ELSE IF qc = 0
         THEN (pc * (ln_micro(pc) - ln_micro(pt) + 10 * Ln10Micro)) \div pt
         ELSE (pc * (ln_micro(pc * qt) - ln_micro(pt * qc))) \div pt

RECURSIVE sum_over(_, _, _)
sum_over(keys, p, q) ==
    IF keys = {} THEN 0
    ELSE LET k == CHOOSE x \in keys : TRUE
         IN  kl_term(p.cnt[k], p.total, q.cnt[k], q.total)
                 + sum_over(keys \ {k}, p, q)

\* ModelMonitor._calculate_kl_divergence, in millionths
calculate_kl_divergence(p, q) ==
    sum_over({k \in Diseases : p.cnt[k] > 0 \/ q.cnt[k] > 0}, p, q)

\* The last n elements of a list: seq[-n:]
last_n(seq, n) ==
    IF Len(seq) <= n THEN seq ELSE SubSeq(seq, Len(seq) - n + 1, Len(seq))

\* seq[i:], i counted from 0
from_index(seq, i) ==
    IF i >= Len(seq) THEN <<>> ELSE SubSeq(seq, i + 1, Len(seq))

\* The guard of _check_drift, line 169: TRUE when the check goes on.
drift_guard_count_only(preds, ref) == ~(Len(preds) < drift_window_size)

drift_guard(preds, ref) == ~(Len(preds) < drift_window_size \/ ref.total = 0)

\* ModelMonitor._check_drift: whether a score was computed, the score, the
\* warnings logged, the alert metrics written and the exception raised.
check_drift(preds, ref) ==
    IF ~drift_guard(preds, ref)
    THEN [ran |-> FALSE, score |-> 0, warnings |-> 0, alerts |-> 0, raised |-> ""]
    ELSE LET current_distribution == calculate_distribution(last_n(preds, drift_window_size))
             drift_score == calculate_kl_divergence(ref, current_distribution)
         IN  IF drift_score > DriftThresholdMicro
             THEN IF "track_drift_alert" \in MetricsTrackerMethods
                  THEN [ran |-> TRUE, score |-> drift_score, warnings |-> 1,
                        alerts |-> 1, raised |-> ""]
                  ELSE [ran |-> TRUE, score |-> drift_score, warnings |-> 1,
                        alerts |-> 0, raised |-> "AttributeError"]
             ELSE [ran |-> TRUE, score |-> drift_score, warnings |-> 0,
                   alerts |-> 0, raised |-> ""]

\* The index _clean_old_data cuts at (lines 101-105): that of the first
\* request time not before the cutoff, 0 when there is none.
cutoff_index(times, cutoff_time) ==
    LET hits == {i \in 1 .. Len(times) : times[i] >= cutoff_time}
    IN  IF hits = {} THEN 0
        ELSE (CHOOSE i \in hits : \A j \in hits : i <= j) - 1

\* _clean_old_data without line 111: the error list is left as it is.
clean_old_data_keep_errors(lat, times, errs, current_time) ==
    LET cutoff_idx == cutoff_index(times, current_time - MetricsWindow)
    IN  IF cutoff_idx > 0
        THEN [latencies |-> from_index(lat, cutoff_idx),
              request_times |-> from_index(times, cutoff_idx),
              errors |-> errs]
        ELSE [latencies |-> lat, request_times |-> times, errors |-> errs]

\* ModelMonitor._clean_old_data
clean_old_data(lat, times, errs, current_time) ==
    LET cutoff_idx == cutoff_index(times, current_time - MetricsWindow)
    IN  IF cutoff_idx > 0
        THEN [latencies |-> from_index(lat, cutoff_idx),
              request_times |-> from_index(times, cutoff_idx),
              errors |-> from_index(errs, cutoff_idx)]
        ELSE [latencies |-> lat, request_times |-> times, errors |-> errs]

\* The k-th smallest element of a (k from 1): sorted(a)[k - 1].
order_statistic(a, k) ==
    LET values == {a[i] : i \in 1 .. Len(a)}
        AtMost(v) == Cardinality({i \in 1 .. Len(a) : a[i] <= v})
    IN  CHOOSE v \in values :
            AtMost(v) >= k /\ \A w \in values : AtMost(w) >= k => v <= w

\* np.percentile(a, q), in hundredths: linear interpolation between the two
\* order statistics around position (n - 1) * q / 100.
percentile(a, q) ==
    LET pos == (Len(a) - 1) * q
        lo  == pos \div 100 + 1
        fr  == pos % 100
    IN  IF fr = 0 THEN order_statistic(a, lo) * 100
        ELSE order_statistic(a, lo) * 100
                 + fr * (order_statistic(a, lo + 1) - order_statistic(a, lo))

ZeroMetrics ==
    [latency_p95 |-> 0, latency_p99 |-> 0, error_count |-> 0,
     request_count |-> 0, last_error |-> ""]

\* ModelMonitor.get_current_metrics; error_rate is error_count / request_count
\* (0.0 for the zeroed metrics), latencies are in hundredths of a second.
get_current_metrics(lat, times, errs, lasterr) ==
    IF lat = <<>> THEN ZeroMetrics
    ELSE [latency_p95 |-> percentile(lat, 95),
          latency_p99 |-> percentile(lat, 99),
          error_count |-> IF Len(times) > 0 THEN Len(errs) ELSE 0,
          request_count |-> Len(times),
          last_error |-> lasterr]

\* error_rate > 0.05 for the metrics m
high_error_rate(m) ==
    m.request_count > 0 /\ m.error_count * 100 > ErrorRatePercent * m.request_count

\* check_model_health without the request-volume check of lines 131-133.
volume_check_skipped(status, issues, m) == [status |-> status, issues |-> issues]

\* Lines 131-133 of check_model_health.
volume_check(status, issues, m) ==
    IF m.request_count = 0
    THEN [status |-> "unknown", issues |-> Append(issues, "No requests in current window")]
    ELSE [status |-> status, issues |-> issues]

\* ModelMonitor.check_model_health for the metrics m.
check_model_health(m) ==
    LET i1 == IF m.latency_p95 > LatencyLimitCenti
              THEN <<"High latency detected (p95 > 2s)">> ELSE <<>>
        s1 == IF m.latency_p95 > LatencyLimitCenti THEN "degraded" ELSE "healthy"
        i2 == IF high_error_rate(m) THEN Append(i1, "High error rate detected") ELSE i1
        s2 == IF high_error_rate(m) THEN "degraded" ELSE s1
    IN  volume_check(s2, i2, m)

NoMon == [op |-> "none", raised |-> "", drift |-> check_drift(<<>>, NoDistribution),
          metrics |-> ZeroMetrics, health |-> [status |-> "", issues |-> <<>>],
          at |-> 0, buffered |-> 0, had_reference |-> FALSE]

InitMonWith(w) ==
    /\ mclock = 0
    /\ workload = w
    /\ latencies = <<>>
    /\ request_times = <<>>
    /\ errors = <<>>
    /\ last_error = ""
    /\ predictions = <<>>
    /\ reference_distribution = NoDistribution
    /\ recorded = <<>>
    /\ mon = NoMon

InitMonVars == InitMonWith("mixed")

------------------------------------------------------------------------------
(* _calculate_kl_divergence on probabilities near the value it substitutes  *)
(* for a missing key                                                        *)

\* A probability w/2 + f * 1e-11: a coarse part in halves and a fine part.
\* [w |-> 0, f |-> 0] stands for a key the dict does not have.
Halves == 2
MissingKey == [w |-> 0, f |-> 0]
FineProbabilities ==
    {v \in [w : 0 .. Halves, f : -MaxFine .. MaxFine] : v.w > 0 \/ v.f > 0}

\* The distributions over the diseases: the probabilities of the keys add up
\* to 1.
FineDistributions ==
    {d \in [Diseases -> FineProbabilities \cup {MissingKey}] :
        /\ d["A"].w + d["B"].w = Halves
        /\ d["A"].f + d["B"].f = 0}

\* 1e-10, the value of lines 190-191 for a missing key.
Epsilon == [w |-> 0, f |-> 10]

\* p.get(key, 1e-10)
get_or_epsilon(d, key) == IF d[key] = MissingKey THEN Epsilon ELSE d[key]

\* The sign of x - y: the fine parts are far smaller than a half.
compare(x, y) ==
    IF x.w # y.w THEN (IF x.w > y.w THEN 1 ELSE -1)
    ELSE IF x.f # y.f THEN (IF x.f > y.f THEN 1 ELSE -1)
    ELSE 0

\* The sign of p_val * np.log(p_val / q_val), line 194: p_val being positive,
\* it is the sign of p_val - q_val.
term_sign(p, q, key) == compare(get_or_epsilon(p, key), get_or_epsilon(q, key))

\* The sign of the sum _calculate_kl_divergence returns, where the signs of its
\* terms settle it: "mixed" when terms of both signs occur.
kl_sign(p, q) ==
    LET all_keys == {k \in Diseases : p[k] # MissingKey \/ q[k] # MissingKey}
        signs == {term_sign(p, q, k) : k \in all_keys}
    IN  IF signs \subseteq {0} THEN "zero"
        ELSE IF signs \subseteq {0, 1} THEN "positive"
        ELSE IF signs \subseteq {0, -1} THEN "negative"
        ELSE "mixed"

InitKLVars ==
    /\ kl_p = [k \in Diseases |-> MissingKey]
    /\ kl_q = [k \in Diseases |-> MissingKey]
    /\ kl_result = "none"

------------------------------------------------------------------------------
(* ChatService.analyze_symptoms and the trackers it calls                   *)

\* What the Supabase REST endpoint does with a POST.
SupabaseAnswers == {"2xx", "timeout", "non2xx"}

\* What Groq answers: a completion that is the JSON asked for, JSON of another
\* shape, text that is not JSON, or no completion at all.
GroqAnswers == {"json", "other_json", "not_json", "raise"}

\* The methods of ModelMonitor (model_monitor.py lines 22-196).
ModelMonitorMethods ==
    {"record_prediction", "get_current_metrics", "check_model_health",
     "set_reference_distribution"}

\* How a call ends: by returning `value` or by raising `exc`; errors counts
\* the error-level records the trackers wrote.
Returned(value) == [kind |-> "return", value |-> value, exc |-> "", errors |-> 0]
Raised(exc, logged) == [kind |-> "raise", value |-> "", exc |-> exc, errors |-> logged]

\* client.post(...) and response.raise_for_status() of the trackers
post(answer) ==
    CASE answer = "2xx" -> ""
      [] answer = "timeout" -> "TimeoutException"
      [] answer = "non2xx" -> "HTTPStatusError"

\* MLOpsTracker.track_prediction
MLOpsTracker_track_prediction(answer) ==
    IF post(answer) = "" THEN Returned("None")
    ELSE Raised("MLOpsTrackingError", 1)

\* MLOpsTracker.update_model_metrics
MLOpsTracker_update_model_metrics(answer) ==
    IF post(answer) = "" THEN Returned("None")
    ELSE Raised("MLOpsTrackingError", 1)

\* UsageTracker.track_analysis: it logs the failure and returns.
UsageTracker_track_analysis(answer) ==
    [Returned("None") EXCEPT !.errors = IF post(answer) = "" THEN 0 ELSE 1]

\* The handler of lines 122-138 for the exception e.
analyze_symptoms_except(e, in) ==
    LET upd == MLOpsTracker_update_model_metrics(in.metrics_again)
    IN  IF upd.kind = "raise" THEN Raised(upd.exc, e.errors + upd.errors)
        ELSE Raised(e.exc, e.errors)

\* Lines 57-114, the completion being the JSON asked for.
analyze_symptoms_tracked(in) ==
    LET trk == MLOpsTracker_track_prediction(in.predictions)
        upd == MLOpsTracker_update_model_metrics(in.metrics)
        use == UsageTracker_track_analysis(in.usage)
    IN  IF "track_prediction" \notin ModelMonitorMethods
        THEN Raised("AttributeError", 0)
        ELSE IF trk.kind = "raise" THEN trk
        ELSE IF "get_performance_metrics" \notin ModelMonitorMethods
        THEN Raised("AttributeError", 0)
        ELSE IF upd.kind = "raise" THEN upd
        ELSE [Returned("analysis") EXCEPT
                 !.errors = IF in.user_id # "" THEN use.errors ELSE 0]

\* ChatService.analyze_symptoms
ChatService_analyze_symptoms(in) ==
    LET body ==
            IF in.astra = "raise" THEN Raised("AstraError", 0)
            ELSE CASE in.groq = "raise" -> Raised("GroqError", 0)
                   [] in.groq = "not_json" -> Returned("fallback")
                   [] in.groq = "other_json" -> Raised("ValidationError", 0)
                   [] in.groq = "json" -> analyze_symptoms_tracked(in)
    IN  IF body.kind = "raise" THEN analyze_symptoms_except(body, in) ELSE body

\* What the collaborators of one call do.
AnalyzeInputs ==
    [astra : {"ok", "raise"}, groq : GroqAnswers, predictions : SupabaseAnswers,
     metrics : SupabaseAnswers, metrics_again : SupabaseAnswers,
     user_id : {"", "u1"}, usage : {"2xx", "non2xx"}]

NotCalled ==
    [in |-> [astra |-> "ok", groq |-> "raise", predictions |-> "2xx",
             metrics |-> "2xx", metrics_again |-> "2xx", user_id |-> "",
             usage |-> "2xx"],
     out |-> Returned("")]

InitSvcVars == svc = NotCalled

------------------------------------------------------------------------------
(* ModelErrorMiddleware with any application inside it                       *)

\* What `await call_next(request)` can do: return a response, or raise one of
\* the exceptions of exceptions.py or another exception.  The base class takes
\* its status_code from its caller.
DownstreamOutcomes ==
    {[Response(200) EXCEPT !.handled = TRUE, !.body = "result"]}
        \cup {RaiseAt(x, "route", Response(0)) :
                 x \in {"MLOpsTrackingError", "ModelInferenceError", "ValueError"}}
        \cup {[RaiseAt("ModelServiceError", "route", Response(0)) EXCEPT !.exc_status = st] :
                 st \in {500, 503}}

InitErrVars ==
    /\ downstream = Response(0)
    /\ request_state = 0

\* No dispatch of RateLimitMiddleware (middleware.py) to report.
NoDispatch ==
    [op |-> "none", ip |-> "", t |-> 0, status |-> 0, retry_after |-> 0,
     handled |-> FALSE, before |-> 0, recorded |-> FALSE]

InitMinVars ==
    /\ self_rate_limit = RATE_LIMIT
    /\ mtime = 0
    /\ pending = 0
    /\ admitted = [ip \in ClientHosts |-> <<>>]
    /\ denied = [ip \in ClientHosts |-> [n |-> 0, t |-> 0]]
    /\ mwlast = NoDispatch

\* The threads that call the monitor.
Threads == {1, 2}

NoThreadCall == [op |-> "none", error |-> "", id |-> 0]
NoSnapshot == [op |-> "none", metrics |-> ZeroMetrics, samples |-> 0]

\* The statements executed while the lock is held.
Critical ==
    {"clean", "append_latency", "append_time", "append_rest", "read_latencies",
     "compute", "release"}

\* Acquiring a threading.Lock without holding it: the caller goes on when
\* nobody holds the lock.  This variant goes on whoever holds it.
can_acquire_unlocked(holder) == TRUE

\* `with self._lock`: threading.Lock.acquire() returns once the lock is free.
can_acquire(holder) == holder = 0

InitThrVars ==
    /\ tpc = [t \in Threads |-> "idle"]
    /\ lock = 0
    /\ tcall = [t \in Threads |-> NoThreadCall]
    /\ tcalls = [t \in Threads |-> 0]
    /\ tnow = [t \in Threads |-> 0]
    /\ tlat = [t \in Threads |-> <<>>]
    /\ snapshot = [t \in Threads |-> NoSnapshot]
    /\ completed = {}

\* The objects super().__new__(cls) can make.
ObjIds == 1 .. 2 * MaxConstructions

NoObject == [made |-> FALSE, inits |-> 0, latencies |-> <<>>]

\* __new__ without line 29: whoever gets the lock makes an object.
second_check_skipped(inst) == TRUE

\* line 29, the check repeated under the lock: `if cls._instance is None`
second_check(inst) == inst = 0

\* ModelMonitor._initialize on the object o: fresh, empty buffers.
initialize(o) == [o EXCEPT !.inits = @ + 1, !.latencies = <<>>]

InitSglVars ==
    /\ instance = 0
    /\ objs = [o \in ObjIds |-> NoObject]
    /\ cpc = [t \in Threads |-> "idle"]
    /\ constructions = [t \in Threads |-> 0]
    /\ held = [t \in Threads |-> 0]
    /\ returned = {}
    /\ stored = 0

------------------------------------------------------------------------------
(* The limiter under a sequence of calls                                    *)

NoResult == fail_open("none")

NoOutcome ==
    [consulted |-> FALSE, handlerCalls |-> 0, kind |-> "none", status |-> 0,
     hdrRemaining |-> -1, hdrReset |-> -1, retryAfter |-> FALSE]

NoCall ==
    [id |-> <<"none", "">>, path |-> "", t |-> 0,
     mem |-> NoResult, redis |-> NoResult]

\* history: the identifier's calls in its latest window, and the one path
\* they all went to ("mixed" when they went to several).
hist_after(h, cw, path) ==
    IF h.w = cw /\ h.k > 0
    THEN [w |-> cw, k |-> h.k + 1, path |-> IF h.path = path THEN path ELSE "mixed"]
    ELSE [w |-> cw, k |-> 1, path |-> path]

\* The clients: "ip:1.2.3.4" sends up to MaxCalls requests at any times, every
\* other identifier sends one request, at any time.
MayCall(id) ==
    IF id = <<"ip", "1.2.3.4">> THEN ncalls < MaxCalls
    ELSE hist[id].k = 0

InitShared ==
    /\ now = 0
    /\ ticks = 0
    /\ ncalls = 0
    /\ max_requests \in MaxRequestsSettings
    /\ storage = [i \in Ids |-> [w \in Windows |-> 0]]
    /\ plain = [i \in Ids |-> FALSE]
    /\ last_cleanup = 0
    /\ rstore = [i \in Ids |-> [w \in Windows |-> NoKey]]
    /\ hist = [i \in Ids |-> [w |-> 0, k |-> 0, path |-> ""]]
    /\ last = NoCall
    /\ mw = NoOutcome

InitLimiter == InitShared /\ InitCtxVars /\ InitChainVars /\ InitMonVars /\ InitKLVars /\ InitSvcVars /\ InitSglVars /\ InitThrVars /\ InitMinVars /\ InitErrVars /\ enabled = TRUE /\ redis_up \in BOOLEAN

\* The clock moves on; Redis drops the keys whose TTL ran out. The caller
\* has taken the latest return value by then.
Tick ==
    \E d \in TickSteps :
        /\ ticks < MaxTicks
        /\ now' = now + d
        /\ ticks' = ticks + 1
        /\ rstore' = redis_expired(rstore, now + d)
        /\ last' = NoCall
        /\ mw' = NoOutcome
        /\ UNCHANGED <<ncalls, max_requests, enabled, storage, plain,
                       last_cleanup, redis_up, hist>>

\* One is_rate_limited(identifier, path) call, put to two limiters at the same
\* clock reading: one built with redis_url unset (local backend), one built
\* with redis_url set (distributed backend).
Call ==
    \E id \in Ids, path \in Paths :
        /\ MayCall(id)
        /\ LET m == is_rate_limited_memory(max_requests, storage, plain,
                                           last_cleanup, id, path, now)
               r == is_rate_limited_redis(max_requests, rstore, id, path,
                                          now, redis_up)
           IN  /\ storage' = m.st
               /\ plain' = m.pl
               /\ last_cleanup' = m.lc
               /\ rstore' = r.rs
               /\ last' = [id |-> id, path |-> path, t |-> now,
                           mem |-> m.res, redis |-> r.res]
        /\ hist' = [hist EXCEPT ![id] = hist_after(@, current_window_at(now), path)]
        /\ ncalls' = IF id = <<"ip", "1.2.3.4">> THEN ncalls + 1 ELSE ncalls
        /\ UNCHANGED <<now, ticks, max_requests, enabled, redis_up, mw>>

NextLimiter ==
    \/ Tick /\ UNCHANGED exceptLimiter
    \/ Call /\ UNCHANGED exceptLimiter

SpecLimiter == InitLimiter /\ [][NextLimiter]_vars

------------------------------------------------------------------------------
(* RateLimitMiddleware of rate_limiter.py                                   *)

\* RateLimitMiddleware.dispatch, lines 118-136, once is_rate_limited has
\* answered res: call_next runs first (line 122), the quota headers are set on
\* its response, and only then is a limited request turned into a raised
\* HTTPException(429), which carries no headers.
dispatch_after_check(res, handler) ==
    IF handler = "raise"
    THEN [consulted |-> TRUE, handlerCalls |-> 1, kind |-> "raise:handler",
          status |-> 0, hdrRemaining |-> -1, hdrReset |-> -1, retryAfter |-> FALSE]
    ELSE IF res.limited
    THEN [consulted |-> TRUE, handlerCalls |-> 1, kind |-> "raise:HTTPException",
          status |-> 429, hdrRemaining |-> -1, hdrReset |-> -1, retryAfter |-> FALSE]
    ELSE [consulted |-> TRUE, handlerCalls |-> 1, kind |-> "response",
          status |-> 200, hdrRemaining |-> res.remaining, hdrReset |-> res.reset,
          retryAfter |-> FALSE]

\* lines 111-112: rate limiting switched off, the request goes straight on.
dispatch_disabled(handler) ==
    [consulted |-> FALSE, handlerCalls |-> 1,
     kind |-> IF handler = "raise" THEN "raise:handler" ELSE "response",
     status |-> IF handler = "raise" THEN 0 ELSE 200,
     hdrRemaining |-> -1, hdrReset |-> -1, retryAfter |-> FALSE]

InitStage == InitShared /\ InitCtxVars /\ InitChainVars /\ InitMonVars /\ InitKLVars /\ InitSvcVars /\ InitSglVars /\ InitThrVars /\ InitMinVars /\ InitErrVars /\ enabled \in BOOLEAN /\ redis_up = TRUE

\* One request through RateLimitMiddleware.dispatch with rate limiting on.
\* The middleware's limiter uses the local backend (RATE_LIMIT_REDIS_URL is
\* unset as shipped).
Dispatch ==
    \E req \in Requests, path \in Paths, handler \in {"ok", "raise"} :
        LET id == get_client_identifier(req)
            m  == is_rate_limited_memory(max_requests, storage, plain,
                                         last_cleanup, id, path, now)
        IN  /\ MayCall(id)
            /\ enabled
            /\ storage' = m.st
            /\ plain' = m.pl
            /\ last_cleanup' = m.lc
            /\ last' = [id |-> id, path |-> path, t |-> now,
                        mem |-> m.res, redis |-> NoResult]
            /\ mw' = dispatch_after_check(m.res, handler)
            /\ hist' = [hist EXCEPT ![id] = hist_after(@, current_window_at(now), path)]
            /\ ncalls' = IF id = <<"ip", "1.2.3.4">> THEN ncalls + 1 ELSE ncalls
            /\ UNCHANGED <<now, ticks, max_requests, enabled, rstore, redis_up>>

\* The same stage with settings.RATE_LIMIT_ENABLED = False.
DispatchDisabled ==
    \E req \in Requests, path \in Paths, handler \in {"ok", "raise"} :
        LET id == get_client_identifier(req)
        IN  /\ MayCall(id)
            /\ ~enabled
            /\ last' = [NoCall EXCEPT !.id = id, !.path = path, !.t = now]
            /\ mw' = dispatch_disabled(handler)
            /\ hist' = [hist EXCEPT ![id] = hist_after(@, current_window_at(now), path)]
            /\ ncalls' = IF id = <<"ip", "1.2.3.4">> THEN ncalls + 1 ELSE ncalls
            /\ UNCHANGED <<now, ticks, max_requests, enabled, storage, plain,
                           last_cleanup, rstore, redis_up>>

NextStage ==
    \/ Tick /\ UNCHANGED exceptLimiter
    \/ Dispatch /\ UNCHANGED exceptLimiter
    \/ DispatchDisabled /\ UNCHANGED exceptLimiter

SpecStage == InitStage /\ [][NextStage]_vars

------------------------------------------------------------------------------
(* Requests running concurrently over RequestContext                        *)

InitContext == InitShared /\ InitCtxVars /\ InitChainVars /\ InitMonVars /\ InitKLVars /\ InitSvcVars /\ InitSglVars /\ InitThrVars /\ InitMinVars /\ InitErrVars /\ enabled = TRUE /\ redis_up = TRUE

NextContext ==
    \/ \E t \in Tasks : Enter(t) /\ UNCHANGED exceptCtx
    \/ \E t \in Tasks : Exit(t) /\ UNCHANGED exceptCtx
    \/ \E t \in Tasks : SetMetadata(t) /\ UNCHANGED exceptCtx
    \/ \E t \in Tasks : GetMetadata(t) /\ UNCHANGED exceptCtx
    \/ \E t \in Tasks : GetAllMetadata(t) /\ UNCHANGED exceptCtx

SpecContext == InitContext /\ [][NextContext]_vars

------------------------------------------------------------------------------
(* Requests sent through the application                                    *)

\* One request is received and answered: the request's task starts with no
\* context variable set, nothing has put a user_id on request.state, and
\* RequestLoggingMiddleware's context is the one the inner middleware run in.
Serve ==
    \E req \in HttpRequests :
        /\ served < MaxServed
        /\ \E e \in {RequestContext_enter(Unset, served + 1, 1, 0, "")} :
           \E r1 \in {router(req)} :
           \E r2 \in {SecurityHeadersMiddleware_dispatch(req, r1)} :
           \E r3 \in {RateLimitMiddleware_dispatch(req, RATE_LIMIT, mw_requests, now, r2)} :
           \E r4 \in {RequestTracingMiddleware_dispatch(req, e.cv, served + 1, mw_requests, r3)} :
           \E r5 \in {ModelErrorMiddleware_dispatch(req, served + 1, e.self.request_id, r4)} :
           \E r6 \in {RequestLoggingMiddleware_dispatch(req, e, r5)} :
           \E r7 \in {metrics_middleware(req, r6)} :
           \E r \in {app(req, r7)} :
               /\ sent' = r.out
               /\ mw_requests' = r.requests
        /\ inbound' = req
        /\ served' = served + 1

InitChain == InitShared /\ InitCtxVars /\ InitChainVars /\ InitMonVars /\ InitKLVars /\ InitSvcVars /\ InitSglVars /\ InitThrVars /\ InitMinVars /\ InitErrVars /\ enabled = TRUE /\ redis_up = TRUE

NextChain ==
    \/ Serve /\ UNCHANGED exceptChain
    \/ Tick /\ UNCHANGED exceptLimiter

SpecChain == InitChain /\ [][NextChain]_vars

------------------------------------------------------------------------------
(* The monitor under traffic                                                *)

\* What callers pass to record_prediction.  Mixed traffic is a few calls of
\* any kind; bulk traffic is a long run of successful predictions naming one
\* disease ("allA") or two diseases in turn ("alternate").
RecordInputs ==
    IF workload = "mixed"
    THEN IF Len(recorded) < MaxSamples
         THEN [latency : {1, 3}, disease : {"A"}, error : {"", "timeout"}]
         ELSE {}
    ELSE IF Len(recorded) < MaxBulk
         THEN {[latency |-> 1,
                disease |-> IF workload = "allA" \/ Len(recorded) % 2 = 0 THEN "A" ELSE "B",
                error |-> ""]}
         ELSE {}

\* ModelMonitor.record_prediction
RecordPrediction ==
    \E in \in RecordInputs :
        LET c == clean_old_data(latencies, request_times, errors, mclock)
            preds == Append(predictions, in.disease)
            d == check_drift(preds, reference_distribution)
        IN  /\ latencies' = Append(c.latencies, in.latency)
            /\ request_times' = Append(c.request_times, mclock)
            /\ predictions' = preds
            /\ errors' = IF in.error # "" THEN Append(c.errors, in.error) ELSE c.errors
            /\ last_error' = IF in.error # "" THEN in.error ELSE last_error
            /\ recorded' = Append(recorded, [t |-> mclock, error |-> in.error # ""])
            /\ mon' = [NoMon EXCEPT !.op = "record", !.raised = d.raised, !.drift = d,
                                    !.at = mclock, !.buffered = Len(preds),
                                    !.had_reference = reference_distribution.total > 0]
            /\ UNCHANGED <<mclock, workload, reference_distribution>>

\* ModelMonitor.get_current_metrics
GetCurrentMetrics ==
    /\ mon' = [NoMon EXCEPT !.op = "metrics", !.at = mclock,
                            !.metrics = get_current_metrics(latencies, request_times,
                                                            errors, last_error)]
    /\ UNCHANGED <<mclock, workload, latencies, request_times, errors, last_error,
                   predictions, reference_distribution, recorded>>

\* ModelMonitor.check_model_health
CheckModelHealth ==
    /\ \E m \in {get_current_metrics(latencies, request_times, errors, last_error)} :
           mon' = [NoMon EXCEPT !.op = "health", !.at = mclock, !.metrics = m,
                                !.health = check_model_health(m)]
    /\ UNCHANGED <<mclock, workload, latencies, request_times, errors, last_error,
                   predictions, reference_distribution, recorded>>

\* ModelMonitor.set_reference_distribution
SetReferenceDistribution ==
    \E reference_data \in {<<>>, <<"A">>, <<"A", "B">>} :
        /\ reference_distribution' =
               IF Len(reference_data) > 0 THEN calculate_distribution(reference_data)
               ELSE reference_distribution
        /\ mon' = [NoMon EXCEPT !.op = "set_reference", !.at = mclock]
        /\ UNCHANGED <<mclock, workload, latencies, request_times, errors, last_error,
                       predictions, recorded>>

\* Time passes.
AdvanceClock ==
    \E d \in MonTickSteps :
        /\ (mclock % MetricsWindow) + (mclock \div MetricsWindow) < MaxMonTicks
        /\ mclock' = mclock + d
        /\ mon' = NoMon
        /\ UNCHANGED <<workload, latencies, request_times, errors, last_error,
                       predictions, reference_distribution, recorded>>

\* Mixed traffic with the metrics read at any moment; no reference
\* distribution is given, and with so few predictions none would be used.
NextMonitor ==
    \/ RecordPrediction /\ UNCHANGED exceptMon
    \/ GetCurrentMetrics /\ UNCHANGED exceptMon
    \/ CheckModelHealth /\ UNCHANGED exceptMon
    \/ AdvanceClock /\ UNCHANGED exceptMon

\* Bulk traffic, the reference distribution being set at any moment.
NextDrift ==
    \/ RecordPrediction /\ UNCHANGED exceptMon
    \/ SetReferenceDistribution /\ UNCHANGED exceptMon

InitMonitor ==
    InitShared /\ InitCtxVars /\ InitChainVars /\ InitKLVars /\ InitSvcVars /\ InitSglVars /\ InitThrVars /\ InitMinVars /\ InitErrVars /\ InitMonWith("mixed")
        /\ enabled = TRUE /\ redis_up = TRUE

SpecMonitor == InitMonitor /\ [][NextMonitor]_vars

InitDrift ==
    /\ InitShared /\ InitCtxVars /\ InitChainVars /\ InitKLVars /\ InitSvcVars /\ InitSglVars /\ InitThrVars /\ InitMinVars /\ InitErrVars
    /\ enabled = TRUE /\ redis_up = TRUE
    /\ \E w \in {"allA", "alternate"} : InitMonWith(w)

SpecDrift == InitDrift /\ [][NextDrift]_vars

------------------------------------------------------------------------------
(* Calls of _calculate_kl_divergence                                        *)

\* The arguments of the next call are chosen.
ChooseDistributions ==
    /\ kl_result # "chosen"
    /\ \E p \in FineDistributions, q \in FineDistributions :
           /\ kl_p' = p
           /\ kl_q' = q
    /\ kl_result' = "chosen"

\* ModelMonitor._calculate_kl_divergence(kl_p, kl_q)
CalculateKL ==
    /\ kl_result = "chosen"
    /\ kl_result' = kl_sign(kl_p, kl_q)
    /\ UNCHANGED <<kl_p, kl_q>>

InitKL ==
    InitShared /\ InitCtxVars /\ InitChainVars /\ InitMonVars /\ InitKLVars /\ InitSvcVars /\ InitSglVars /\ InitThrVars /\ InitMinVars /\ InitErrVars
        /\ enabled = TRUE /\ redis_up = TRUE

NextKL ==
    \/ ChooseDistributions /\ UNCHANGED exceptKL
    \/ CalculateKL /\ UNCHANGED exceptKL

SpecKL == InitKL /\ [][NextKL]_vars

------------------------------------------------------------------------------
(* Calls of ChatService.analyze_symptoms                                    *)

AnalyzeSymptoms ==
    \E in \in AnalyzeInputs :
        svc' = [in |-> in, out |-> ChatService_analyze_symptoms(in)]

InitService ==
    InitShared /\ InitCtxVars /\ InitChainVars /\ InitMonVars /\ InitKLVars
        /\ InitSvcVars /\ InitSglVars /\ InitThrVars /\ InitMinVars /\ InitErrVars /\ enabled = TRUE /\ redis_up = TRUE

NextService == AnalyzeSymptoms /\ UNCHANGED exceptSvc

SpecService == InitService /\ [][NextService]_vars

------------------------------------------------------------------------------
(* Requests sent through ModelErrorMiddleware alone                          *)

TranslateErrors ==
    \E req \in HttpRequests, d \in DownstreamOutcomes, sid \in {0, 7} :
        /\ served < MaxServed
        /\ downstream' = d
        /\ request_state' = sid
        /\ \E r \in {ModelErrorMiddleware_dispatch(req, served + 1, sid,
                        [out |-> d, requests |-> mw_requests])} :
               sent' = r.out
        /\ inbound' = req
        /\ served' = served + 1
        /\ UNCHANGED mw_requests

InitErrorStage ==
    InitShared /\ InitCtxVars /\ InitChainVars /\ InitMonVars /\ InitKLVars
        /\ InitSvcVars /\ InitSglVars /\ InitThrVars /\ InitMinVars /\ InitErrVars /\ enabled = TRUE /\ redis_up = TRUE

NextErrorStage == TranslateErrors /\ UNCHANGED exceptChainAndErr

SpecErrorStage == InitErrorStage /\ [][NextErrorStage]_vars

------------------------------------------------------------------------------
(* RateLimitMiddleware of middleware.py under concurrent requests            *)

\* The clock readings of this middleware.
MinuteSteps == {20, 40}
MaxMinuteTime == MaxMinuteTicks * 40

\* rate_limit_per_minute: small positive values standing for the configured
\* settings.RATE_LIMIT.
RateLimits == {1, 2}

\* How many of the times in ts lie in (t - 60, t].
InLastMinute(ts, t) ==
    Cardinality({i \in 1 .. Len(ts) : ts[i] > t - MinuteWindow /\ ts[i] <= t})

\* The requests that have arrived so far.
RECURSIVE Arrived(_)
Arrived(S) ==
    IF S = {} THEN 0
    ELSE LET ip == CHOOSE x \in S : TRUE
         IN  Len(admitted[ip]) + denied[ip].n + Arrived(S \ {ip})

Arrivals == Arrived(ClientHosts)

\* A request of client ip arrives: dispatch runs up to its only suspension
\* point, `await call_next(request)` (or to its return of the 429 response).
Arrive(ip) ==
    LET req == [hdr |-> 0, client |-> ip, path |-> "/chat/analyze", route |-> "ok"]
        handler == [Response(200) EXCEPT !.handled = TRUE, !.body = "result"]
    IN  /\ Arrivals < MaxArrivals
        /\ \E r \in {RateLimitMiddleware_dispatch(req, self_rate_limit, mw_requests,
                                                  mtime, handler)} :
               /\ mw_requests' = r.requests
               /\ mwlast' = [op |-> "dispatch", ip |-> ip, t |-> mtime,
                             status |-> r.out.status,
                             retry_after |-> r.out.retry_after,
                             handled |-> r.out.handled,
                             before |-> InLastMinute(admitted[ip], mtime),
                             recorded |-> Len(r.requests[ip])
                                 > Len(cleanup_old_requests(mw_requests, mtime)[ip])]
               /\ IF r.out.handled
                  THEN /\ admitted' = [admitted EXCEPT ![ip] = Append(@, mtime)]
                       /\ pending' = pending + 1
                       /\ UNCHANGED denied
                  ELSE /\ denied' = [denied EXCEPT ![ip] = [n |-> @.n + 1, t |-> mtime]]
                       /\ UNCHANGED <<admitted, pending>>
        /\ UNCHANGED <<self_rate_limit, mtime, served, inbound, sent>>

\* call_next returns for one of the requests and dispatch returns its
\* response.
HandlerReturns ==
    /\ pending > 0
    /\ pending' = pending - 1
    /\ mwlast' = NoDispatch
    /\ UNCHANGED <<self_rate_limit, mtime, admitted, denied, chainVars>>

MinutePasses ==
    \E d \in MinuteSteps :
        /\ mtime + d <= MaxMinuteTime
        /\ mtime' = mtime + d
        /\ mwlast' = NoDispatch
        /\ UNCHANGED <<self_rate_limit, pending, admitted, denied, chainVars>>

InitMinute ==
    /\ InitShared /\ InitCtxVars /\ InitChainVars /\ InitMonVars /\ InitKLVars
    /\ InitSvcVars /\ InitSglVars /\ InitThrVars /\ InitErrVars /\ enabled = TRUE /\ redis_up = TRUE
    /\ self_rate_limit \in RateLimits
    /\ mtime = 0
    /\ pending = 0
    /\ admitted = [ip \in ClientHosts |-> <<>>]
    /\ denied = [ip \in ClientHosts |-> [n |-> 0, t |-> 0]]
    /\ mwlast = NoDispatch

NextMinute ==
    \/ \E ip \in ClientHosts : Arrive(ip) /\ UNCHANGED exceptChainAndMin
    \/ HandlerReturns /\ UNCHANGED exceptChainAndMin
    \/ MinutePasses /\ UNCHANGED exceptChainAndMin

SpecMinute == InitMinute /\ [][NextMinute]_vars

------------------------------------------------------------------------------
(* The monitor called from several threads                                  *)

monFrame == <<workload, reference_distribution, recorded, mon>>

\* record_prediction is called: line 49, `now = datetime.now()`, runs before
\* the lock is asked for.  The latency passed identifies the sample.
StartRecord(t) ==
    \E error \in {"", "timeout"} :
        /\ tpc[t] = "idle"
        /\ tcalls[t] < MaxThreadCalls
        /\ tcall' = [tcall EXCEPT ![t] = [op |-> "record", error |-> error,
                                          id |-> 10 * t + tcalls[t] + 1]]
        /\ tcalls' = [tcalls EXCEPT ![t] = @ + 1]
        /\ tnow' = [tnow EXCEPT ![t] = mclock]
        /\ snapshot' = [snapshot EXCEPT ![t] = NoSnapshot]
        /\ tpc' = [tpc EXCEPT ![t] = "acquire"]
        /\ UNCHANGED <<lock, tlat, completed, mclock, latencies, request_times,
                       errors, last_error, predictions, monFrame>>

\* get_current_metrics is called.
StartMetrics(t) ==
    /\ tpc[t] = "idle"
    /\ tcalls[t] < MaxThreadCalls
    /\ tcall' = [tcall EXCEPT ![t] = [NoThreadCall EXCEPT !.op = "metrics"]]
    /\ tcalls' = [tcalls EXCEPT ![t] = @ + 1]
    /\ snapshot' = [snapshot EXCEPT ![t] = NoSnapshot]
    /\ tpc' = [tpc EXCEPT ![t] = "acquire"]
    /\ UNCHANGED <<lock, tnow, tlat, completed, mclock, latencies, request_times,
                   errors, last_error, predictions, monFrame>>

\* `with self._lock:` (lines 51 and 72)
Acquire(t) ==
    /\ tpc[t] = "acquire"
    /\ can_acquire(lock)
    /\ lock' = t
    /\ tpc' = [tpc EXCEPT ![t] = IF tcall[t].op = "record" THEN "clean"
                                ELSE "read_latencies"]
    /\ UNCHANGED <<tcall, tcalls, tnow, tlat, snapshot, completed, mclock, latencies,
                   request_times, errors, last_error, predictions, monFrame>>

\* line 53: self._clean_old_data(now)
Clean(t) ==
    /\ tpc[t] = "clean"
    /\ \E c \in {clean_old_data(latencies, request_times, errors, tnow[t])} :
           /\ latencies' = c.latencies
           /\ request_times' = c.request_times
           /\ errors' = c.errors
    /\ tpc' = [tpc EXCEPT ![t] = "append_latency"]
    /\ UNCHANGED <<lock, tcall, tcalls, tnow, tlat, snapshot, completed, mclock,
                   last_error, predictions, monFrame>>

\* line 56: self.latencies.append(latency)
AppendLatency(t) ==
    /\ tpc[t] = "append_latency"
    /\ latencies' = Append(latencies, tcall[t].id)
    /\ tpc' = [tpc EXCEPT ![t] = "append_time"]
    /\ UNCHANGED <<lock, tcall, tcalls, tnow, tlat, snapshot, completed, mclock,
                   request_times, errors, last_error, predictions, monFrame>>

\* line 57: self.request_times.append(now)
AppendTime(t) ==
    /\ tpc[t] = "append_time"
    /\ request_times' = Append(request_times, tnow[t])
    /\ tpc' = [tpc EXCEPT ![t] = "append_rest"]
    /\ UNCHANGED <<lock, tcall, tcalls, tnow, tlat, snapshot, completed, mclock,
                   latencies, errors, last_error, predictions, monFrame>>

\* lines 58-68: the prediction and the error are stored and _check_drift
\* runs; an exception of _check_drift leaves the with block, as a return does.
AppendRest(t) ==
    /\ tpc[t] = "append_rest"
    /\ predictions' = Append(predictions, "A")
    /\ errors' = IF tcall[t].error # "" THEN Append(errors, tcall[t].error) ELSE errors
    /\ last_error' = IF tcall[t].error # "" THEN tcall[t].error ELSE last_error
    /\ completed' = completed \cup {[id |-> tcall[t].id, now |-> tnow[t]]}
    /\ tpc' = [tpc EXCEPT ![t] = "release"]
    /\ UNCHANGED <<lock, tcall, tcalls, tnow, tlat, snapshot, mclock, latencies,
                   request_times, monFrame>>

\* lines 73 and 81: `if not self.latencies` and np.array(self.latencies)
ReadLatencies(t) ==
    /\ tpc[t] = "read_latencies"
    /\ tlat' = [tlat EXCEPT ![t] = latencies]
    /\ tpc' = [tpc EXCEPT ![t] = "compute"]
    /\ UNCHANGED <<lock, tcall, tcalls, tnow, snapshot, completed, mclock, latencies,
                   request_times, errors, last_error, predictions, monFrame>>

\* lines 82-94: the other buffers are read and the metrics are built from
\* them and the array read before.
Compute(t) ==
    /\ tpc[t] = "compute"
    /\ snapshot' = [snapshot EXCEPT ![t] =
           [op |-> "metrics",
            metrics |-> get_current_metrics(tlat[t], request_times, errors, last_error),
            samples |-> Len(tlat[t])]]
    /\ tpc' = [tpc EXCEPT ![t] = "release"]
    /\ UNCHANGED <<lock, tcall, tcalls, tnow, tlat, completed, mclock, latencies,
                   request_times, errors, last_error, predictions, monFrame>>

\* The with block is left: the lock is released.
Release(t) ==
    /\ tpc[t] = "release"
    /\ lock' = 0
    /\ tpc' = [tpc EXCEPT ![t] = "idle"]
    /\ UNCHANGED <<tcall, tcalls, tnow, tlat, snapshot, completed, mclock, latencies,
                   request_times, errors, last_error, predictions, monFrame>>

\* More than the metrics window passes, once.
WindowPasses ==
    /\ mclock = 0
    /\ mclock' = MetricsWindow + 1
    /\ UNCHANGED <<thrVars, latencies, request_times, errors, last_error,
                   predictions, monFrame>>

InitThreads ==
    InitShared /\ InitCtxVars /\ InitChainVars /\ InitMonVars /\ InitKLVars
        /\ InitSvcVars /\ InitSglVars /\ InitErrVars /\ InitMinVars /\ InitThrVars
        /\ enabled = TRUE /\ redis_up = TRUE

NextThreads ==
    \/ \E t \in Threads : StartRecord(t) /\ UNCHANGED exceptMonAndThr
    \/ \E t \in Threads : StartMetrics(t) /\ UNCHANGED exceptMonAndThr
    \/ \E t \in Threads : Acquire(t) /\ UNCHANGED exceptMonAndThr
    \/ \E t \in Threads : Clean(t) /\ UNCHANGED exceptMonAndThr
    \/ \E t \in Threads : AppendLatency(t) /\ UNCHANGED exceptMonAndThr
    \/ \E t \in Threads : AppendTime(t) /\ UNCHANGED exceptMonAndThr
    \/ \E t \in Threads : AppendRest(t) /\ UNCHANGED exceptMonAndThr
    \/ \E t \in Threads : ReadLatencies(t) /\ UNCHANGED exceptMonAndThr
    \/ \E t \in Threads : Compute(t) /\ UNCHANGED exceptMonAndThr
    \/ \E t \in Threads : Release(t) /\ UNCHANGED exceptMonAndThr
    \/ WindowPasses /\ UNCHANGED exceptMonAndThr

SpecThreads == InitThreads /\ [][NextThreads]_vars

------------------------------------------------------------------------------
(* ModelMonitor() called from several threads                               *)

thrFrame == <<tpc, tcall, tcalls, tnow, tlat, snapshot, completed>>

\* ModelMonitor() is called.
Construct(t) ==
    /\ cpc[t] = "idle"
    /\ constructions[t] < MaxConstructions
    /\ constructions' = [constructions EXCEPT ![t] = @ + 1]
    /\ cpc' = [cpc EXCEPT ![t] = "check"]
    /\ UNCHANGED <<instance, objs, held, returned, stored, lock>>

\* line 27: `if cls._instance is None`, without the lock
FirstCheck(t) ==
    /\ cpc[t] = "check"
    /\ cpc' = [cpc EXCEPT ![t] = IF instance = 0 THEN "acquire" ELSE "return"]
    /\ UNCHANGED <<instance, objs, constructions, held, returned, stored, lock>>

\* line 28: `with cls._lock:`
AcquireNew(t) ==
    /\ cpc[t] = "acquire"
    /\ can_acquire(lock)
    /\ lock' = t
    /\ cpc' = [cpc EXCEPT ![t] = "check_again"]
    /\ UNCHANGED <<instance, objs, constructions, held, returned, stored>>

\* line 29
SecondCheck(t) ==
    /\ cpc[t] = "check_again"
    /\ cpc' = [cpc EXCEPT ![t] = IF second_check(instance) THEN "create" ELSE "unlock"]
    /\ UNCHANGED <<instance, objs, constructions, held, returned, stored, lock>>

\* line 30: cls._instance = super().__new__(cls)
Create(t) ==
    /\ cpc[t] = "create"
    /\ \E o \in ObjIds :
           /\ ~objs[o].made
           /\ \A q \in ObjIds : q < o => objs[q].made
           /\ objs' = [objs EXCEPT ![o].made = TRUE]
           /\ instance' = o
    /\ cpc' = [cpc EXCEPT ![t] = "initialize"]
    /\ UNCHANGED <<constructions, held, returned, stored, lock>>

\* line 31: cls._instance._initialize()
Initialize(t) ==
    /\ cpc[t] = "initialize"
    /\ objs' = [objs EXCEPT ![instance] = initialize(@)]
    /\ cpc' = [cpc EXCEPT ![t] = "unlock"]
    /\ UNCHANGED <<instance, constructions, held, returned, stored, lock>>

\* the with block of line 28 is left
Unlock(t) ==
    /\ cpc[t] = "unlock"
    /\ lock' = 0
    /\ cpc' = [cpc EXCEPT ![t] = "return"]
    /\ UNCHANGED <<instance, objs, constructions, held, returned, stored>>

\* line 32: return cls._instance
Return(t) ==
    /\ cpc[t] = "return"
    /\ held' = [held EXCEPT ![t] = instance]
    /\ returned' = returned \cup {instance}
    /\ cpc' = [cpc EXCEPT ![t] = "idle"]
    /\ UNCHANGED <<instance, objs, constructions, stored, lock>>

\* record_prediction on the object the thread was given; it takes the same
\* lock, ModelMonitor._lock, for the whole of its work.
RecordOnHeld(t) ==
    /\ cpc[t] = "idle"
    /\ held[t] # 0
    /\ stored < MaxConstructions
    /\ can_acquire(lock)
    /\ objs[held[t]].inits > 0
    /\ objs' = [objs EXCEPT ![held[t]].latencies = Append(@, 1)]
    /\ stored' = stored + 1
    /\ UNCHANGED <<instance, cpc, constructions, held, returned, lock>>

InitSingleton ==
    InitShared /\ InitCtxVars /\ InitChainVars /\ InitMonVars /\ InitKLVars
        /\ InitSvcVars /\ InitErrVars /\ InitMinVars /\ InitThrVars /\ InitSglVars
        /\ enabled = TRUE /\ redis_up = TRUE

NextSingleton ==
    \/ \E t \in Threads : Construct(t) /\ UNCHANGED <<exceptThrAndSgl, thrFrame>>
    \/ \E t \in Threads : FirstCheck(t) /\ UNCHANGED <<exceptThrAndSgl, thrFrame>>
    \/ \E t \in Threads : AcquireNew(t) /\ UNCHANGED <<exceptThrAndSgl, thrFrame>>
    \/ \E t \in Threads : SecondCheck(t) /\ UNCHANGED <<exceptThrAndSgl, thrFrame>>
    \/ \E t \in Threads : Create(t) /\ UNCHANGED <<exceptThrAndSgl, thrFrame>>
    \/ \E t \in Threads : Initialize(t) /\ UNCHANGED <<exceptThrAndSgl, thrFrame>>
    \/ \E t \in Threads : Unlock(t) /\ UNCHANGED <<exceptThrAndSgl, thrFrame>>
    \/ \E t \in Threads : Return(t) /\ UNCHANGED <<exceptThrAndSgl, thrFrame>>
    \/ \E t \in Threads : RecordOnHeld(t) /\ UNCHANGED <<exceptThrAndSgl, thrFrame>>

SpecSingleton == InitSingleton /\ [][NextSingleton]_vars

------------------------------------------------------------------------------
(* Claims                                                                   *)

Info(r) == <<r.limited, r.remaining, r.reset>>

ScenarioId == <<"ip", "1.2.3.4">>

\* C1: local backend, calls of one identifier that all go to one path: within
\* a window the first N calls (N the path's maximum) are allowed, call N+1 is
\* denied, and the first call of a window is counted from zero (the count
\* stored for the window is 1 after it), whatever sweeps ran in between.
C1_WindowCounting ==
    (last.id \in Ids /\ "default" \in DOMAIN max_requests) =>
        LET h == hist[last.id]
            N == lookup_max(max_requests, last.path).mx
        IN  h.path = last.path =>
                /\ (h.k <= N => ~last.mem.limited)
                /\ (h.k = N + 1 => last.mem.limited)
                /\ (h.k = 1 => storage[last.id][h.w] = 1)

ZeroInfo(r) == ~r.limited /\ r.remaining = 0 /\ r.reset = 0

\* C2: is_rate_limited fails open. A call made with the "default" key missing
\* from the configuration, with the remote store down, or with a reply of the
\* store that is no integer (a type failure) returns limited = false with
\* remaining = 0 and reset = 0, and no call lets an exception reach its caller.
C2_FailsOpen ==
    last.id \in Ids =>
        /\ ~last.mem.raised /\ ~last.redis.raised
        /\ ("default" \notin DOMAIN max_requests =>
                ZeroInfo(last.mem) /\ ZeroInfo(last.redis))
        /\ (~redis_up => ZeroInfo(last.redis))
        /\ (pipe_incr.type # "int" => ZeroInfo(last.redis))
        /\ (last.mem.error # "" => ZeroInfo(last.mem))
        /\ (last.redis.error # "" => ZeroInfo(last.redis))

\* A call that hit a KeyError in the local backend and found the store down.
C2_Witness ==
    /\ last.id \in Ids
    /\ last.mem.error = "KeyError"
    /\ last.redis.error = "RedisError"
    /\ "default" \in DOMAIN max_requests

\* C3: with a store that works, the local and the distributed backend
\* return the same (limited, info) for every call of the same call sequence.
C3_BackendsAgree ==
    (last.id \in Ids /\ redis_up) => Info(last.mem) = Info(last.redis)

\* C4: a call that hits no backend error returns remaining = max(0, max -
\* count), never negative, and reset = (window + 1) * window_seconds, count
\* being the post-increment count; and with window 60 and maximum 20 the calls
\* 1..20 of "ip:1.2.3.4" at t = 0 are allowed with remaining 19..0 and call 21
\* at t = 5 is denied with reset 60.
C4_QuotaInfo ==
    (last.id \in Ids /\ last.mem.error = "") =>
        LET cw    == current_window_at(last.t)
            count == storage[last.id][cw]
            N     == lookup_max(max_requests, last.path).mx
            h     == hist[last.id]
        IN  /\ last.mem.remaining = (IF N > count THEN N - count ELSE 0)
            /\ last.mem.remaining >= 0
            /\ last.mem.reset = (cw + 1) * RATE_LIMIT_WINDOW_SECONDS
            /\ (/\ last.id = ScenarioId
                /\ last.path = AnalyzePath
                /\ h.path = AnalyzePath
                /\ h.w = 0) =>
                    /\ N = 20
                    /\ (last.t = 0 /\ h.k <= 20 =>
                            ~last.mem.limited /\ last.mem.remaining = 20 - h.k)
                    /\ (last.t = 5 /\ h.k = 21 =>
                            last.mem.limited /\ last.mem.reset = 60)

\* The 21st call of the scenario, made at t = 5 and denied.
C4_Witness ==
    /\ last.id = ScenarioId
    /\ last.path = AnalyzePath
    /\ last.t = 5
    /\ hist[ScenarioId] = [w |-> 0, k |-> 21, path |-> AnalyzePath]
    /\ last.mem.error = ""
    /\ last.mem.limited
    /\ last.mem.remaining = 0
    /\ last.mem.reset = 60

\* What identifier i would be told on path q if it called now.
Peek(i, q) ==
    is_rate_limited_memory(max_requests, storage, plain, last_cleanup, i, q, now).res

\* C5: a call of an identifier to one path changes neither the decision nor
\* the remaining quota the same identifier gets on a different path.
C5_PathsIndependent ==
    [][\A i \in Ids, q \in Paths :
          (hist'[i] # hist[i] /\ last'.id = i /\ last'.path # q)
              => Info(Peek(i, q))' = Info(Peek(i, q))]_vars

\* C6: RateLimitMiddleware of rate_limiter.py: a request reported limited never
\* reaches the handler and is answered 429 with a retry hint; a request
\* reported not limited runs the handler once and its response carries the
\* remaining quota and the reset time of info.
C6_LimitedSkipsHandler ==
    mw.consulted =>
        /\ last.mem.limited =>
              /\ mw.handlerCalls = 0
              /\ mw.kind = "response"
              /\ mw.status = 429
              /\ mw.retryAfter
        /\ (~last.mem.limited /\ mw.kind # "raise:handler") =>
              /\ mw.handlerCalls = 1
              /\ mw.kind = "response"
              /\ mw.hdrRemaining = last.mem.remaining
              /\ mw.hdrReset = last.mem.reset

\* C7: every response the application sends carries the five security
\* headers.
C7_SecurityHeaders ==
    served > 0 => sent.sec = SecurityHeaders

\* C8: every response carries an X-Request-ID header that is not empty and is
\* the request id of every log record written for that request.
C8_RequestIdHeader ==
    served > 0 =>
        /\ sent.rid # 0
        /\ \A id \in sent.logs : id = sent.rid

\* C9: leaving a RequestContext scope, by return or by exception, raises
\* nothing and leaves the four variables as they were before the scope was
\* entered.
C9_ExitRestores ==
    obs.op \in {"exit:return", "exit:exception"} =>
        /\ obs.raised = ""
        /\ cv[obs.task] = obs.before

\* C10: a metadata value that a request set inside its RequestContext scope is
\* never returned, by get_metadata or get_all_metadata, to another request.
C10_Isolated ==
    obs.op \in {"get", "get_all"} =>
        \A k \in Keys :
            (obs.seen[k].by # 0 /\ obs.seen[k].by # obs.task) => ~obs.seen[k].inside

\* Both requests are inside their scopes, request 1 has set the key there, and
\* request 2, reading the same key, is given nothing.
C10_Witness ==
    /\ obs.op = "get"
    /\ obs.task = 2
    /\ scopes[1] # <<>>
    /\ scopes[2] # <<>>
    /\ heap[cv[1].metadata][obs.key] = [by |-> 1, inside |-> TRUE]
    /\ obs.seen[obs.key] = Absent

\* C11: with no RequestContext bound, set_metadata changes nothing a later
\* get_metadata or get_all_metadata can observe, get_metadata returns the
\* default, get_all_metadata returns an empty mapping, and none of them raises.
C11_UnboundNoOp ==
    /\ heap[DefaultDict] = EmptyDict
    /\ (obs.op \in {"get", "get_all"} /\ cv[obs.task].metadata = DefaultDict) =>
           (obs.seen = EmptyDict /\ obs.raised = "")

\* The record_prediction calls so far whose time is within the metrics window
\* at time t.
InWindow(t) == {i \in 1 .. Len(recorded) : recorded[i].t >= t - MetricsWindow}

\* The calls whose samples the monitor still holds: the latest ones, as many
\* as there are request times.
Retained == {i \in 1 .. Len(recorded) : i > Len(recorded) - Len(request_times)}

\* C12: the metrics get_current_metrics returns are those of the samples
\* recorded within the last 5 minutes, the sample exactly 5 minutes old
\* included, and of no older one.
C12_WindowExact ==
    mon.op = "metrics" => mon.metrics.request_count = Cardinality(InWindow(mon.at))

\* C13: the error rate get_current_metrics returns is the number of retained
\* samples recorded with an error over the number of retained samples.
C13_ErrorRate ==
    (mon.op = "metrics" /\ mon.metrics.request_count > 0) =>
        /\ mon.metrics.request_count = Cardinality(Retained)
        /\ mon.metrics.error_count = Cardinality({i \in Retained : recorded[i].error})

\* C14: record_prediction computes a drift score, and logs a warning or writes
\* an alert, only when at least drift_window_size predictions are buffered and
\* a reference distribution has been set.
C14_DriftGuard ==
    mon.op = "record" =>
        /\ mon.drift.ran => (mon.buffered >= drift_window_size /\ mon.had_reference)
        /\ (mon.drift.warnings > 0 \/ mon.drift.alerts > 0) => mon.drift.ran

\* A drift check that ran and found no drift.
C14_Witness ==
    /\ mon.op = "record"
    /\ mon.drift.ran
    /\ mon.drift.score = 0
    /\ mon.buffered >= drift_window_size
    /\ mon.had_reference

\* C15: a drift check that finds a score above the threshold logs one warning
\* and writes one drift-alert metric, and record_prediction returns normally.
C15_DriftAlert ==
    (mon.op = "record" /\ mon.drift.ran /\ mon.drift.score > DriftThresholdMicro) =>
        /\ mon.drift.warnings = 1
        /\ mon.drift.alerts = 1
        /\ mon.raised = ""

\* The issues check_model_health is to report for the metrics m.
ExpectedIssues(m) ==
    {c \in {"latency", "error_rate", "volume"} :
        \/ c = "latency" /\ m.latency_p95 > LatencyLimitCenti
        \/ c = "error_rate" /\ m.error_count * 100 > ErrorRatePercent * m.request_count
        \/ c = "volume" /\ m.request_count = 0}

IssueKind(text) ==
    CASE text = "High latency detected (p95 > 2s)" -> "latency"
      [] text = "High error rate detected" -> "error_rate"
      [] text = "No requests in current window" -> "volume"

\* C17: with no samples the metrics are zeroed and the status is "unknown";
\* with samples the status is "degraded" exactly when p95 latency is above 2
\* seconds or the error rate above 5%, else "healthy"; issues has one entry
\* for each condition that holds and no other.
C17_Health ==
    mon.op = "health" =>
        LET m == mon.metrics
            issues == mon.health.issues
        IN  /\ mon.raised = ""
            /\ latencies = <<>> => (m = ZeroMetrics /\ mon.health.status = "unknown")
            /\ latencies # <<>> =>
                   /\ m.request_count > 0
                   /\ mon.health.status =
                          IF m.latency_p95 > LatencyLimitCenti
                                 \/ m.error_count * 100 > ErrorRatePercent * m.request_count
                          THEN "degraded" ELSE "healthy"
            /\ {IssueKind(issues[i]) : i \in 1 .. Len(issues)} = ExpectedIssues(m)
            /\ Len(issues) = Cardinality(ExpectedIssues(m))

\* Health is checked with both conditions met: p95 above 2 seconds and more
\* than 5% errors.
C17_Witness ==
    /\ mon.op = "health"
    /\ mon.metrics.latency_p95 > LatencyLimitCenti
    /\ mon.metrics.error_count > 0
    /\ mon.health.status = "degraded"
    /\ Len(mon.health.issues) = 2

\* C16: the drift score _calculate_kl_divergence returns is never negative,
\* and is 0 when the two distributions are the same.
C16_KLNonNegative ==
    kl_result \notin {"none", "chosen"} =>
        /\ kl_result # "negative"
        /\ kl_p = kl_q => kl_result = "zero"

\* C18: analyze_symptoms returns the analysis whenever the completion was
\* obtained and parsed, whatever the tracking backend answers.
C18_TrackingNonFatal ==
    (svc # NotCalled /\ svc.in.astra = "ok" /\ svc.in.groq = "json") =>
        /\ svc.out.kind = "return"
        /\ svc.out.value = "analysis"

\* C19: when an exception other than a ModelServiceError is raised while a
\* request to the analyze or feedback endpoint is served, the client gets the
\* generic structured error body, with a request id in it and none of the
\* exception's text.
C19_GenericErrorBody ==
    (/\ served > 0
     /\ inbound.path \in Routes
     /\ \E x \in sent.trail : x[1] # "ModelServiceError") =>
        /\ sent.body = "generic"
        /\ sent.body_rid # 0
        /\ ~sent.leak

\* C20: whatever fails in the handler or in a middleware, no exception leaves
\* the outermost middleware and every failure has its error-level record.
C20_AlwaysAnswersAndLogs ==
    served > 0 =>
        /\ ~sent.escaped
        /\ sent.trail \subseteq sent.errlog

\* The order of the stages as main.py lines 29-47 number them.
StageOrder == <<"security", "ratelimit", "tracing", "error", "logging">>

IsPrefix(a, b) == Len(a) <= Len(b) /\ \A i \in 1 .. Len(a) : a[i] = b[i]

\* C21: a request enters the stages in the order security headers, rate
\* limiting, tracing, error translation, logging, and a request the limiter
\* denies enters no stage after the limiter.
C21_StageOrder ==
    served > 0 =>
        /\ IsPrefix(sent.stages, StageOrder)
        /\ sent.status = 429 => Len(sent.stages) <= 2

\* C22: the request id bound in the RequestContext, the id of every log record
\* and the X-Request-ID header of the response are the inbound X-Request-ID
\* when the request has one, and one fresh id otherwise.
C22_OneRequestId ==
    served > 0 =>
        LET id == IF inbound.hdr # 0 THEN inbound.hdr ELSE sent.ctx_rid
        IN  /\ id # 0
            /\ sent.ctx_rid = id
            /\ sent.rid = id
            /\ \A l \in sent.logs : l = id

\* C28: a request that ends with a response moves http_requests_total once
\* and has one duration observed.
C28_CountedOnce ==
    (served > 0 /\ sent.kind = "response") =>
        /\ sent.incs = 1
        /\ sent.observed = 1

\* C23: ModelErrorMiddleware turns a ModelServiceError into a response with the
\* error's status code and its message, error_code, type and the request id,
\* and any other exception into the fixed status-500 body without exception
\* text; either way it writes an error-level record and raises nothing.
C23_ErrorTranslation ==
    (served > 0 /\ downstream.kind = "raise") =>
        /\ sent.kind = "response"
        /\ <<downstream.exc, downstream.origin>> \in sent.errlog
        /\ sent.body_rid # 0
        /\ request_state # 0 => sent.body_rid = request_state
        /\ IF downstream.exc \in ModelServiceErrors
           THEN /\ sent.status = downstream.exc_status
                /\ sent.body_msg = "exception"
                /\ sent.body_code = downstream.exc_code
                /\ sent.body_type = downstream.exc
           ELSE /\ sent.status = 500
                /\ sent.body_msg = "An unexpected error occurred"
                /\ sent.body_code = "INTERNAL_SERVER_ERROR"
                /\ ~sent.leak

C23_Witness ==
    /\ served = 2
    /\ downstream.exc = "ModelServiceError"
    /\ sent.status = 503
    /\ sent.body_rid = 7

\* C24: a call of the local backend sweeps at most once per 60 seconds; the
\* sweep removes the windows older than the previous one and keeps the counts
\* of the current and the previous window; and the call returns what it would
\* return had no sweep ever run: the decision and the quota of the number of
\* calls the identifier has made in the current window.
C24_SweepTransparent ==
    [][(hist' # hist /\ "default" \in DOMAIN max_requests) =>
          LET id == last'.id
              cw == current_window_at(now)
              N  == lookup_max(max_requests, last'.path).mx
          IN  /\ last_cleanup' # last_cleanup =>
                     /\ now - last_cleanup > CleanupInterval
                     /\ \A i \in Ids, w \in Windows :
                            /\ (w < cw - 1) => storage'[i][w] = 0
                            /\ (w >= cw - 1 /\ <<i, w>> # <<id, cw>>) =>
                                   storage'[i][w] = storage[i][w]
              /\ Info(last'.mem) = Info(quota(N, hist'[id].k, cw))]_vars

\* C29: whatever was recorded and evicted, the latency and the timestamp
\* buffer have the same length and the error buffer is no longer than the
\* timestamp buffer, so the error rate reported lies in [0, 1] and
\* request_count is the number of latency samples retained.
C29_BufferInvariant ==
    /\ Len(latencies) = Len(request_times)
    /\ Len(errors) <= Len(request_times)
    /\ mon.op = "metrics" =>
           /\ 0 <= mon.metrics.error_count
           /\ mon.metrics.error_count <= mon.metrics.request_count
           /\ mon.metrics.request_count = Len(latencies)

\* Metrics read after an eviction, one of the two retained samples having an
\* error in the buffer.
C29_Witness ==
    /\ mon.op = "metrics"
    /\ Len(recorded) = 3
    /\ Len(request_times) = 2
    /\ Len(errors) = 1
    /\ mon.metrics.error_count = 1
    /\ mon.metrics.request_count = 2

\* C26: RateLimitMiddleware of middleware.py: for every client and every time
\* t, at most rate_limit of the client's requests passed on to the handler
\* arrived in (t - 60, t], however the requests interleave.
C26_SlidingBound ==
    \A ip \in ClientHosts, t \in 0 .. MaxMinuteTime :
        InLastMinute(admitted[ip], t) <= self_rate_limit

\* Two requests admitted at 0 and two more at 60, all four handlers still
\* running: the bound is met in both windows.
C26_Witness ==
    /\ self_rate_limit = 2
    /\ admitted["1.2.3.4"] = <<0, 0, 60, 60>>
    /\ pending = 4
    /\ mwlast.op = "dispatch"
    /\ mwlast.ip = "1.2.3.4"
    /\ mwlast.before = 1
    /\ InLastMinute(admitted["1.2.3.4"], mtime) = self_rate_limit

\* C27: RateLimitMiddleware of middleware.py: a request is denied exactly when
\* rate_limit of the client's admitted requests lie in the last 60 seconds; a
\* denied request gets 429 with Retry-After 60, does not reach the handler and
\* is not recorded; an admitted one is recorded and reaches the handler.
C27_DeniedNotCounted ==
    mwlast.op = "dispatch" =>
        /\ (mwlast.status = 429) <=> ~(mwlast.before < self_rate_limit)
        /\ mwlast.status = 429 =>
               /\ mwlast.retry_after = 60
               /\ ~mwlast.handled
               /\ ~mwlast.recorded
        /\ mwlast.status # 429 =>
               /\ mwlast.handled
               /\ mwlast.recorded

\* A client admitted again although one of its requests was denied within the
\* last 60 seconds.
C27_Witness ==
    /\ mwlast.op = "dispatch"
    /\ mwlast.status = 200
    /\ mwlast.before = self_rate_limit - 1
    /\ denied[mwlast.ip].n > 0
    /\ denied[mwlast.ip].t > mwlast.t - MinuteWindow
    /\ Len(admitted[mwlast.ip]) > self_rate_limit

\* C25: however record_prediction and get_current_metrics calls of several
\* threads interleave, at most one thread is between acquiring and releasing
\* the lock, a thread waiting for the lock waits for a thread that can go on
\* (no deadlock), every stored sample that is not older than the metrics
\* window is in the buffers, and every snapshot's request_count is the number
\* of latency samples it was computed from.
C25_ThreadSafe ==
    /\ Cardinality({t \in Threads : tpc[t] \in Critical}) <= 1
    /\ \A t \in Threads : tpc[t] \in Critical => lock = t
    /\ lock # 0 => tpc[lock] \in Critical
    /\ \A s \in completed :
           s.now >= mclock - MetricsWindow =>
               \E i \in 1 .. Len(latencies) :
                   /\ i <= Len(request_times)
                   /\ latencies[i] = s.id
                   /\ request_times[i] = s.now
    /\ \A t \in Threads :
           snapshot[t].op = "metrics" =>
               snapshot[t].metrics.request_count = snapshot[t].samples

\* A thread has computed a snapshot of two samples and still holds the lock
\* while the other thread, inside record_prediction, waits for it.
C25_Witness ==
    \E t \in Threads, u \in Threads :
        /\ t # u
        /\ tpc[t] = "release"
        /\ snapshot[t].op = "metrics"
        /\ snapshot[t].samples = 2
        /\ Cardinality(completed) = 2
        /\ tpc[u] = "acquire"
        /\ tcall[u].op = "record"

\* The _initialize runs so far, all objects together.
RECURSIVE Inits(_)
Inits(S) ==
    IF S = {} THEN 0
    ELSE LET o == CHOOSE x \in S : TRUE IN objs[o].inits + Inits(S \ {o})

\* C30: however the first ModelMonitor() calls of several threads interleave,
\* all calls return one and the same object, _initialize runs once (never
\* twice, and once by the time the constructing thread has left the lock), and
\* the samples stored so far are all in the buffer of the object
\* ModelMonitor() gives: no later construction empties it.
C30_Singleton ==
    /\ Cardinality(returned) <= 1
    /\ 0 \notin returned
    /\ Inits(ObjIds) <= 1
    /\ (returned # {} /\ lock = 0) => Inits(ObjIds) = 1
    /\ stored > 0 => (instance # 0 /\ Len(objs[instance].latencies) = stored)

\* A thread that found no instance at line 27 gets the lock only after the
\* other thread has made the instance and stored samples in it; the check of
\* line 29 has sent it past the construction.
C30_Witness ==
    \E t \in Threads, u \in Threads :
        /\ t # u
        /\ cpc[t] = "unlock"
        /\ stored = 2
        /\ held[u] = instance
        /\ objs[instance].inits = 1

====
